---- MODULE Spec2Model ----
(***************************************************************************)
(* Inventory / usage accounting of the Fragrance Collection Tracker.       *)
(*                                                                         *)
(* Units.  The source computes with JavaScript numbers; the model uses     *)
(* exact fixed-point integers:                                             *)
(*   - volumes (estimatedUsage, remaining ml) in 1/100 ml,                 *)
(*   - levels and thresholds (currentLevel, lowThreshold) in 1/100 percent,*)
(*   - bottleSize in whole ml,                                             *)
(*   - dates as day numbers relative to "now" (0 = today).                 *)
(* An optional value (a ?-field of a DTO, a NULL column) is <<>> when      *)
(* absent and <<v>> when present.                                          *)
(***************************************************************************)
EXTENDS Integers, Sequences, FiniteSets, TLC

VARIABLES
    inventory,   \* table inventory: sequence of rows in rowid order, id = position
    usageLog,    \* table usage_entries: sequence of rows in insertion order
    dailyWear,   \* table daily_wear with its entries: sequence of rows
    last,        \* the service call that completed last: name, arguments, outcome
    pc,          \* per request or timer: the point it is suspended at
    loc          \* per request: its arguments and local variables; in the
                 \* scheduler, retry and search sections: the fields of the
                 \* service object (see there)

vars == <<inventory, usageLog, dailyWear, last, pc, loc>>

-----------------------------------------------------------------------------
(* Bounds of the model *)

MaxLog == 2        \* rows of usage_entries
MaxEntries == 2    \* entries of one daily-wear request

(* Program constants, in model units *)

SPRAY_TO_ML_RATIO == 10       \* 0.1 ml per spray
DEFAULT_LOW_THRESHOLD == 2000 \* 20 percent
DEFAULT_LEVEL == 10000        \* 100 percent
BASELINE_DAILY_ML == 50       \* 0.5 ml per day
WINDOW_DAYS == 30
INFINITE_DAYS == 1000000000   \* JavaScript Infinity

None == <<>>
Some(v) == <<v>>

Percent(n) == n * 100

Min(S) == CHOOSE x \in S : \A y \in S : x <= y
Max2(a, b) == IF a >= b THEN a ELSE b

(* Inputs *)

Fragrances == {"f1", "f2"}
Users == {"temp-user-id"}
Today == 0
WearDates == {Today}
BottleSizes == {2, 100}
SprayCounts == {1, 5}
EstimatedUsages == {None, Some(25)}
CreateLevels == {None, Some(0), Some(Percent(3)), Some(Percent(80))}
CreateTrackings == {None, Some(FALSE)}
CreateThresholds == {None}

-----------------------------------------------------------------------------
(* InventoryRepository *)

\* estimated_days_remaining || undefined: a stored 0 reads as absent
MapRowToInventory(row) ==
    [row EXCEPT !.estimatedDaysRemaining =
        IF row.estimatedDaysRemaining = Some(0) THEN None
        ELSE row.estimatedDaysRemaining]

\* SELECT * FROM inventory WHERE fragrance_id = ? (first matching row)
FindByFragranceId(inv, f) ==
    LET idx == {i \in DOMAIN inv : inv[i].fragranceId = f}
    IN  IF idx = {} THEN None ELSE Some(MapRowToInventory(inv[Min(idx)]))

\* INSERT INTO inventory: the repository applies its own defaults again
RepoCreate(inv, data) ==
    Append(inv,
        [id |-> Len(inv) + 1,
         fragranceId |-> data.fragranceId,
         bottleSize |-> data.bottleSize,
         currentLevel |-> IF data.currentLevel # None /\ data.currentLevel[1] # 0
                          THEN data.currentLevel[1] ELSE DEFAULT_LEVEL,
         usageTracking |-> (data.usageTracking = Some(TRUE)),
         lowThreshold |-> IF data.lowThreshold # None /\ data.lowThreshold[1] # 0
                          THEN data.lowThreshold[1] ELSE DEFAULT_LOW_THRESHOLD,
         estimatedDaysRemaining |-> None])

NoUpdate ==
    [bottleSize |-> None, currentLevel |-> None, usageTracking |-> None,
     lowThreshold |-> None, estimatedDaysRemaining |-> None]

\* UPDATE inventory SET <the supplied fields> WHERE id = ?
RepoUpdate(inv, id, data) ==
    [i \in DOMAIN inv |->
        IF inv[i].id # id THEN inv[i]
        ELSE [id |-> inv[i].id,
              fragranceId |-> inv[i].fragranceId,
              bottleSize |-> IF data.bottleSize # None
                             THEN data.bottleSize[1] ELSE inv[i].bottleSize,
              currentLevel |-> IF data.currentLevel # None
                               THEN data.currentLevel[1] ELSE inv[i].currentLevel,
              usageTracking |-> IF data.usageTracking # None
                                THEN data.usageTracking[1] ELSE inv[i].usageTracking,
              lowThreshold |-> IF data.lowThreshold # None
                               THEN data.lowThreshold[1] ELSE inv[i].lowThreshold,
              estimatedDaysRemaining |->
                  IF data.estimatedDaysRemaining # None
                  THEN data.estimatedDaysRemaining
                  ELSE inv[i].estimatedDaysRemaining]]

-----------------------------------------------------------------------------
(* UsageEntryRepository *)

\* INSERT OR REPLACE keyed by fragrance and date: one event per fragrance and
\* day, a later one overwrites the earlier
UsageCreateUpsert(log, data) ==
    LET row == [fragranceId |-> data.fragranceId, date |-> data.date,
                sprayCount |-> data.sprayCount,
                estimatedUsage |-> data.estimatedUsage]
        same(r) == r.fragranceId = data.fragranceId /\ r.date = data.date
    IN  IF \E i \in DOMAIN log : same(log[i])
        THEN [i \in DOMAIN log |-> IF same(log[i]) THEN row ELSE log[i]]
        ELSE Append(log, row)
\* INSERT INTO usage_entries
UsageCreate(log, data) ==
    Append(log, [fragranceId |-> data.fragranceId, date |-> data.date,
                 sprayCount |-> data.sprayCount,
                 estimatedUsage |-> data.estimatedUsage])

\* estimated_usage || undefined
MapRowToUsageEntry(row) ==
    [row EXCEPT !.estimatedUsage =
        IF row.estimatedUsage = Some(0) THEN None ELSE row.estimatedUsage]

\* WHERE fragrance_id = ? AND date <= ?: the start of the range is not applied
FindByFragranceAndDateRangeNoStart(log, f, startDate, endDate) ==
    LET keep(r) == r.fragranceId = f /\ r.date <= endDate
    IN  [i \in 1..Len(SelectSeq(log, keep)) |->
            MapRowToUsageEntry(SelectSeq(log, keep)[i])]
\* WHERE fragrance_id = ? AND date BETWEEN ? AND ?
FindByFragranceAndDateRange(log, f, startDate, endDate) ==
    LET keep(r) == r.fragranceId = f /\ r.date >= startDate /\ r.date <= endDate
    IN  [i \in 1..Len(SelectSeq(log, keep)) |->
            MapRowToUsageEntry(SelectSeq(log, keep)[i])]

-----------------------------------------------------------------------------
(* InventoryService *)

\* usage.estimatedUsage || usage.sprayCount * SPRAY_TO_ML_RATIO
UsageAmountIgnoresEstimate(usage) == usage.sprayCount * SPRAY_TO_ML_RATIO
UsageAmount(usage) ==
    IF usage.estimatedUsage # None /\ usage.estimatedUsage[1] # 0
    THEN usage.estimatedUsage[1]
    ELSE usage.sprayCount * SPRAY_TO_ML_RATIO

\* Math.max(0, currentLevel - (usageAmount / bottleSize) * 100)
NewLevelUnclamped(inventoryRec, usage) ==
    inventoryRec.currentLevel
        - (UsageAmount(usage) * 100) \div inventoryRec.bottleSize
NewLevel(inventoryRec, usage) ==
    Max2(0, inventoryRec.currentLevel
              - (UsageAmount(usage) * 100) \div inventoryRec.bottleSize)

RECURSIVE SumUsage(_)
SumUsage(entries) ==
    IF entries = <<>> THEN 0
    ELSE UsageAmount(Head(entries)) + SumUsage(Tail(entries))

\* calculateRemainingDays reading the level as `currentLevel || 100`
CalculateRemainingDaysLevelOrDefault(inv, log, f) ==
    LET found == FindByFragranceId(inv, f)
        level == IF found # None /\ found[1].currentLevel # 0
                 THEN found[1].currentLevel ELSE DEFAULT_LEVEL
    IN  IF found = None \/ level <= 0 THEN 0
        ELSE
          LET recentUsage ==
                  FindByFragranceAndDateRange(log, f, Today - WINDOW_DAYS, Today)
              remainingMl100 == level * found[1].bottleSize
              totalUsage == SumUsage(recentUsage)
              daysWithUsage ==
                  Cardinality({recentUsage[i].date : i \in DOMAIN recentUsage})
          IN  IF Len(recentUsage) = 0
              THEN remainingMl100 \div (100 * BASELINE_DAILY_ML)
              ELSE IF totalUsage <= 0 THEN INFINITE_DAYS
              ELSE Max2(0, (remainingMl100 * Max2(daysWithUsage, 1))
                              \div (100 * totalUsage))

\* calculateRemainingDays averaging over the usage entries, not over the
\* distinct dates they fall on
CalculateRemainingDaysCountsEvents(inv, log, f) ==
    LET found == FindByFragranceId(inv, f)
    IN  IF found = None \/ found[1].currentLevel <= 0 THEN 0
        ELSE
          LET recentUsage ==
                  FindByFragranceAndDateRange(log, f, Today - WINDOW_DAYS, Today)
              remainingMl100 == found[1].currentLevel * found[1].bottleSize
              totalUsage == SumUsage(recentUsage)
              daysWithUsage == Len(recentUsage)
          IN  IF Len(recentUsage) = 0
              THEN remainingMl100 \div (100 * BASELINE_DAILY_ML)
              ELSE IF totalUsage <= 0 THEN INFINITE_DAYS
              ELSE Max2(0, (remainingMl100 * Max2(daysWithUsage, 1))
                              \div (100 * totalUsage))
\* calculateRemainingDays: reads the stored record and the usage log
CalculateRemainingDays(inv, log, f) ==
    LET found == FindByFragranceId(inv, f)
    IN  IF found = None \/ found[1].currentLevel <= 0 THEN 0
        ELSE
          LET recentUsage ==
                  FindByFragranceAndDateRange(log, f, Today - WINDOW_DAYS, Today)
              \* remainingMl = currentLevel / 100 * bottleSize, here times 100
              remainingMl100 == found[1].currentLevel * found[1].bottleSize
              totalUsage == SumUsage(recentUsage)
              daysWithUsage ==
                  Cardinality({recentUsage[i].date : i \in DOMAIN recentUsage})
          IN  IF Len(recentUsage) = 0
              THEN remainingMl100 \div (100 * BASELINE_DAILY_ML)
              ELSE IF totalUsage <= 0 THEN INFINITE_DAYS
              ELSE Max2(0, (remainingMl100 * Max2(daysWithUsage, 1))
                              \div (100 * totalUsage))

\* updateInventoryFromUsage: the wear-triggered update
UpdateInventoryFromUsageIgnoresFlag(inv, log, f, usage) ==
    LET found == FindByFragranceId(inv, f)
    IN  IF found = None THEN [inv |-> inv, result |-> "NotFound"]
        ELSE [inv |-> RepoUpdate(inv, found[1].id,
                        [NoUpdate EXCEPT
                           !.currentLevel = Some(NewLevel(found[1], usage)),
                           !.estimatedDaysRemaining =
                               Some(CalculateRemainingDays(inv, log, f))]),
              result |-> "ok"]
UpdateInventoryFromUsage(inv, log, f, usage) ==
    LET found == FindByFragranceId(inv, f)
    IN  IF found = None THEN [inv |-> inv, result |-> "NotFound"]
        ELSE IF found[1].usageTracking
        THEN [inv |-> RepoUpdate(inv, found[1].id,
                        [NoUpdate EXCEPT
                           !.currentLevel = Some(NewLevel(found[1], usage)),
                           !.estimatedDaysRemaining =
                               Some(CalculateRemainingDays(inv, log, f))]),
              result |-> "ok"]
        ELSE [inv |-> inv, result |-> "ok"]

\* the usage entry the direct update stores
DirectUsageEntry(f, usage) ==
    [fragranceId |-> f, date |-> usage.date, sprayCount |-> usage.sprayCount,
     estimatedUsage |-> Some(UsageAmount(usage))]

\* updateInventory: the direct usage update
UpdateInventoryFnLogsFirst(inv, log, f, usage) ==
    LET found == FindByFragranceId(inv, f)
        log2 == UsageCreate(log, DirectUsageEntry(f, usage))
    IN  IF found = None THEN [inv |-> inv, log |-> log2, result |-> "NotFound"]
        ELSE IF found[1].usageTracking
        THEN [inv |-> RepoUpdate(inv, found[1].id,
                        [NoUpdate EXCEPT
                           !.currentLevel = Some(NewLevel(found[1], usage)),
                           !.estimatedDaysRemaining =
                               Some(CalculateRemainingDays(inv, log2, f))]),
              log |-> log2, result |-> "ok"]
        ELSE [inv |-> inv, log |-> log2, result |-> "ok"]
UpdateInventoryFn(inv, log, f, usage) ==
    LET found == FindByFragranceId(inv, f)
        log2 == UsageCreate(log, DirectUsageEntry(f, usage))
    IN  IF found = None THEN [inv |-> inv, log |-> log, result |-> "NotFound"]
        ELSE IF found[1].usageTracking
        THEN [inv |-> RepoUpdate(inv, found[1].id,
                        [NoUpdate EXCEPT
                           !.currentLevel = Some(NewLevel(found[1], usage)),
                           !.estimatedDaysRemaining =
                               Some(CalculateRemainingDays(inv, log2, f))]),
              log |-> log2, result |-> "ok"]
        ELSE [inv |-> inv, log |-> log2, result |-> "ok"]

\* the record createInventory hands to the repository
CreateDefaults(data) ==
    [data EXCEPT
        !.currentLevel = IF data.currentLevel # None /\ data.currentLevel[1] # 0
                         THEN data.currentLevel ELSE Some(DEFAULT_LEVEL),
        !.usageTracking = Some(data.usageTracking # Some(FALSE)),
        !.lowThreshold = IF data.lowThreshold # None /\ data.lowThreshold[1] # 0
                         THEN data.lowThreshold ELSE Some(DEFAULT_LOW_THRESHOLD)]

-----------------------------------------------------------------------------
(* DailyWearRepository *)

\* SELECT * FROM daily_wear WHERE user_id = ? AND date = ?
FindByUserAndDate(wear, userId, date) ==
    LET idx == {i \in DOMAIN wear : wear[i].userId = userId /\ wear[i].date = date}
    IN  IF idx = {} THEN None ELSE Some(wear[Min(idx)])

\* const id = uuidv4(): an id no stored row has
NextWearId(wear) ==
    IF wear = <<>> THEN 1
    ELSE 1 + CHOOSE m \in {wear[i].id : i \in DOMAIN wear} :
                 \A i \in DOMAIN wear : wear[i].id <= m

\* INSERT INTO daily_wear and daily_wear_entries, in one transaction; the row
\* holds the date and entries of data, and its weather when data has one
DailyWearCreate(wear, userId, data) ==
    Append(wear, [id |-> NextWearId(wear), userId |-> userId] @@ data)

\* SELECT * FROM daily_wear WHERE id = ?
FindById(wear, id) ==
    LET idx == {i \in DOMAIN wear : wear[i].id = id}
    IN  IF idx = {} THEN None ELSE Some(wear[Min(idx)])

\* DELETE FROM daily_wear WHERE id = ?
DailyWearDelete(wear, id) == SelectSeq(wear, LAMBDA row : row.id # id)

-----------------------------------------------------------------------------
(* CalendarServiceImpl *)

\* calculateEstimatedUsage
CalculateEstimatedUsageWrongRatio(sprayCount) == sprayCount
CalculateEstimatedUsage(sprayCount) == sprayCount * SPRAY_TO_ML_RATIO

\* entry.sprayCount && entry.sprayCount > 0
HasSprays(entry) == entry.sprayCount # None /\ entry.sprayCount[1] > 0

\* one iteration of the loop of recordDailyWear: the usage entry is created,
\* then the inventory is updated inside try/catch
WearEntryData(entry, date) ==
    [fragranceId |-> entry.fragranceId, date |-> date,
     sprayCount |-> entry.sprayCount[1],
     estimatedUsage |-> Some(CalculateEstimatedUsage(entry.sprayCount[1]))]

WearCalls(entry, result) ==
    <<[call |-> "usageEntryRepo.create", fragranceId |-> entry.fragranceId,
       result |-> "ok"],
      [call |-> "updateInventoryFromUsage", fragranceId |-> entry.fragranceId,
       result |-> result]>>

\* the loop of recordDailyWear over data.entries; calls is the trace of the
\* calls it makes, in order; thrown tells whether an error left the loop
RECURSIVE ProcessEntriesNoCatch(_, _, _, _, _)
ProcessEntriesNoCatch(entries, date, inv, log, calls) ==
    IF entries = <<>>
    THEN [inv |-> inv, log |-> log, calls |-> calls, thrown |-> FALSE]
    ELSE
      LET entry == Head(entries)
          log2 == UsageCreate(log, WearEntryData(entry, date))
          r == UpdateInventoryFromUsage(inv, log2, entry.fragranceId,
                                        WearEntryData(entry, date))
      IN  IF HasSprays(entry)
          THEN IF r.result # "ok"
               THEN [inv |-> r.inv, log |-> log2,
                     calls |-> calls \o WearCalls(entry, r.result),
                     thrown |-> TRUE]
               ELSE ProcessEntriesNoCatch(Tail(entries), date, r.inv, log2,
                        calls \o WearCalls(entry, r.result))
          ELSE ProcessEntriesNoCatch(Tail(entries), date, inv, log, calls)

RECURSIVE ProcessEntries(_, _, _, _, _)
ProcessEntries(entries, date, inv, log, calls) ==
    IF entries = <<>>
    THEN [inv |-> inv, log |-> log, calls |-> calls, thrown |-> FALSE]
    ELSE
      LET entry == Head(entries)
          log2 == UsageCreate(log, WearEntryData(entry, date))
          r == UpdateInventoryFromUsage(inv, log2, entry.fragranceId,
                                        WearEntryData(entry, date))
      IN  IF HasSprays(entry)
          THEN ProcessEntries(Tail(entries), date, r.inv, log2,
                   calls \o WearCalls(entry, r.result))
          ELSE ProcessEntries(Tail(entries), date, inv, log, calls)

SprayEntries(entries) == SelectSeq(entries, HasSprays)

-----------------------------------------------------------------------------
(* Requests: one whole service call a step *)

CreateInventoryDtos ==
    [fragranceId : Fragrances, bottleSize : BottleSizes,
     currentLevel : CreateLevels, usageTracking : CreateTrackings,
     lowThreshold : CreateThresholds]

DirectUsages ==
    [date : {Today}, sprayCount : SprayCounts, estimatedUsage : EstimatedUsages]

WearEntries == [fragranceId : Fragrances, sprayCount : {None, Some(3)}]

WearEntryLists ==
    UNION {[1..n -> WearEntries] : n \in 1..MaxEntries}

\* the inputs of the wear-recording specification
WearCreateDtos ==
    [fragranceId : Fragrances, bottleSize : {2},
     currentLevel : {None, Some(Percent(3))}, usageTracking : CreateTrackings,
     lowThreshold : {None}]

WearDirectUsages ==
    [date : {Today}, sprayCount : {5}, estimatedUsage : {None}]

NoRequests == [p \in {} |-> "idle"]

Init ==
    /\ inventory = <<>>
    /\ usageLog = <<>>
    /\ dailyWear = <<>>
    /\ last = [op |-> "none", result |-> "ok"]
    /\ pc = NoRequests
    /\ loc = NoRequests

\* createInventory
CreateInventoryUnchecked(dtos) ==
    \E data \in dtos :
        /\ inventory' = RepoCreate(inventory, CreateDefaults(data))
        /\ last' = [op |-> "createInventory", result |-> "ok",
                    fragranceId |-> data.fragranceId, data |-> data]
        /\ UNCHANGED <<usageLog, dailyWear, pc, loc>>
CreateInventory(dtos) ==
    \E data \in dtos :
        /\ IF FindByFragranceId(inventory, data.fragranceId) # None
           THEN /\ inventory' = inventory
                /\ last' = [op |-> "createInventory", result |-> "AlreadyExists",
                            fragranceId |-> data.fragranceId]
           ELSE /\ inventory' = RepoCreate(inventory, CreateDefaults(data))
                /\ last' = [op |-> "createInventory", result |-> "ok",
                            fragranceId |-> data.fragranceId, data |-> data]
        /\ UNCHANGED <<usageLog, dailyWear, pc, loc>>

\* updateInventory (POST /api/inventory)
UpdateInventory(usages) ==
    \E f \in Fragrances, usage \in usages :
        LET r == UpdateInventoryFn(inventory, usageLog, f, usage)
        IN  /\ Len(usageLog) < MaxLog
            /\ inventory' = r.inv
            /\ usageLog' = r.log
            /\ last' = [op |-> "updateInventory", result |-> r.result,
                        fragranceId |-> f, usage |-> usage]
            /\ UNCHANGED <<dailyWear, pc, loc>>

\* recordDailyWear (POST /api/daily-wear)
RecordDailyWear ==
    \E userId \in Users, date \in WearDates, entries \in WearEntryLists :
        LET data == [date |-> date, entries |-> entries]
            wear2 == DailyWearCreate(dailyWear, userId, data)
            r == ProcessEntries(entries, date, inventory, usageLog, <<>>)
        IN  /\ IF FindByUserAndDate(dailyWear, userId, date) # None
               THEN /\ UNCHANGED <<inventory, usageLog, dailyWear>>
                    /\ last' = [op |-> "recordDailyWear",
                                result |-> "AlreadyExists",
                                userId |-> userId, date |-> date]
               ELSE /\ Len(usageLog) + Len(SprayEntries(entries)) <= MaxLog
                    /\ dailyWear' = wear2
                    /\ inventory' = r.inv
                    /\ usageLog' = r.log
                    /\ last' = [op |-> "recordDailyWear",
                                result |-> IF r.thrown THEN "Error" ELSE "ok",
                                userId |-> userId, date |-> date,
                                returned |-> wear2[Len(wear2)],
                                calls |-> r.calls]
            /\ UNCHANGED <<pc, loc>>

\* The inventory ledger: create and direct usage update
Next ==
    \/ CreateInventory(CreateInventoryDtos)
    \/ UpdateInventory(DirectUsages)

Spec == Init /\ [][Next]_vars

\* Wear recording over a ledger
NextWear ==
    \/ CreateInventory(WearCreateDtos)
    \/ RecordDailyWear
    \/ UpdateInventory(WearDirectUsages)

SpecWear == Init /\ [][NextWear]_vars

-----------------------------------------------------------------------------
(* Concurrent requests.  A service call runs until its next await; between  *)
(* two awaits of one call the steps of other calls may run.  One action is  *)
(* one such step; pc[p] is the await the call of request slot p stands at,  *)
(* loc[p] its arguments and local variables.                                *)

Procs == {1, 2}
MaxRows == 2       \* rows of inventory under concurrent requests

\* FragranceRepository.findByUserId(userId, { listType: 'owned' })
Catalog ==
    [f \in Fragrances |-> [userId |-> "temp-user-id", listType |-> "owned"]]

RECURSIVE SetToSeq(_)
SetToSeq(S) ==
    IF S = {} THEN <<>>
    ELSE LET x == CHOOSE y \in S : TRUE IN <<x>> \o SetToSeq(S \ {x})

FindOwnedByUserId(userId) ==
    SetToSeq({f \in Fragrances :
                 Catalog[f].userId = userId /\ Catalog[f].listType = "owned"})

ConcFragrances == {"f1"}

ConcCreateDtos ==
    [fragranceId : ConcFragrances, bottleSize : {100}, currentLevel : {None},
     usageTracking : {None}, lowThreshold : {None}]

ConcUsages == {[date |-> Today, sprayCount |-> 5, estimatedUsage |-> None]}

ConcWearEntries == [fragranceId : ConcFragrances, sprayCount : {Some(3)}]

ConcEdits == {[NoUpdate EXCEPT !.currentLevel = Some(Percent(80))]}

NoUsage == [date |-> Today, sprayCount |-> 0, estimatedUsage |-> None]

IdleLoc ==
    [op |-> "none", fragranceId |-> "f1", usage |-> NoUsage, data |-> NoUpdate,
     found |-> None, est |-> 0, todo |-> <<>>]

\* usage entries that calls under way are still to insert
PendingLogs == Cardinality({p \in Procs : pc[p] = "update_log"})

InitC ==
    /\ inventory = <<>>
    /\ usageLog = <<>>
    /\ dailyWear = <<>>
    /\ last = [op |-> "none", result |-> "ok"]
    /\ pc = [p \in Procs |-> "idle"]
    /\ loc = [p \in Procs |-> IdleLoc]

Done(p, op, result, f) ==
    /\ pc' = [pc EXCEPT ![p] = "idle"]
    /\ loc' = [loc EXCEPT ![p] = IdleLoc]
    /\ last' = [op |-> op, result |-> result, fragranceId |-> f]

\* createInventory up to the answer of findByFragranceId
CreateFind(p) ==
    \E data \in ConcCreateDtos :
        /\ pc[p] = "idle"
        /\ IF FindByFragranceId(inventory, data.fragranceId) # None
           THEN Done(p, "createInventory", "AlreadyExists", data.fragranceId)
           ELSE /\ pc' = [pc EXCEPT ![p] = "create_insert"]
                /\ loc' = [loc EXCEPT ![p] =
                              [IdleLoc EXCEPT !.op = "createInventory",
                                              !.fragranceId = data.fragranceId,
                                              !.data = data]]
                /\ last' = last
        /\ UNCHANGED <<inventory, usageLog, dailyWear>>

\* createInventory: inventoryRepo.create; the table has no unique constraint
\* on fragrance_id, so the INSERT goes through whatever rows exist
CreateInsert(p) ==
    /\ pc[p] = "create_insert"
    /\ Len(inventory) < MaxRows
    /\ inventory' = RepoCreate(inventory, CreateDefaults(loc[p].data))
    /\ Done(p, "createInventory", "ok", loc[p].fragranceId)
    /\ UNCHANGED <<usageLog, dailyWear>>

\* updateInventory up to the answer of findByFragranceId
UpdateFind(p) ==
    \E f \in ConcFragrances, usage \in ConcUsages :
        LET found == FindByFragranceId(inventory, f)
        IN  /\ pc[p] = "idle"
            /\ Len(usageLog) + PendingLogs < MaxLog
            /\ IF found = None
               THEN Done(p, "updateInventory", "NotFound", f)
               ELSE /\ pc' = [pc EXCEPT ![p] = "update_log"]
                    /\ loc' = [loc EXCEPT ![p] =
                                  [IdleLoc EXCEPT !.op = "updateInventory",
                                                  !.fragranceId = f,
                                                  !.usage = usage,
                                                  !.found = found]]
                    /\ last' = last
            /\ UNCHANGED <<inventory, usageLog, dailyWear>>

\* updateInventory: usageRepo.create
UpdateLog(p) ==
    /\ pc[p] = "update_log"
    /\ usageLog' = UsageCreate(usageLog,
                       DirectUsageEntry(loc[p].fragranceId, loc[p].usage))
    /\ IF loc[p].found[1].usageTracking
       THEN /\ pc' = [pc EXCEPT ![p] = "apply_est"]
            /\ UNCHANGED <<loc, last>>
       ELSE Done(p, "updateInventory", "ok", loc[p].fragranceId)
    /\ UNCHANGED <<inventory, dailyWear>>

\* one iteration of the loop of recordDailyWear, up to the answer of
\* findByFragranceId in updateInventoryFromUsage: the usage entry is created
\* by the caller, then the update starts
WearLogFind(p) ==
    \E entry \in ConcWearEntries :
        LET found == FindByFragranceId(inventory, entry.fragranceId)
        IN  /\ pc[p] = "idle"
            /\ Len(usageLog) + PendingLogs < MaxLog
            /\ usageLog' = UsageCreate(usageLog, WearEntryData(entry, Today))
            /\ IF found = None
               THEN Done(p, "updateInventoryFromUsage", "NotFound",
                         entry.fragranceId)
               ELSE IF ~found[1].usageTracking
               THEN Done(p, "updateInventoryFromUsage", "ok", entry.fragranceId)
               ELSE /\ pc' = [pc EXCEPT ![p] = "apply_est"]
                    /\ loc' = [loc EXCEPT ![p] =
                                  [IdleLoc EXCEPT
                                      !.op = "updateInventoryFromUsage",
                                      !.fragranceId = entry.fragranceId,
                                      !.usage = WearEntryData(entry, Today),
                                      !.found = found]]
                    /\ last' = last
            /\ UNCHANGED <<inventory, dailyWear>>

\* updateInventory and updateInventoryFromUsage: calculateRemainingDays, the
\* argument of inventoryRepo.update that is evaluated first
ApplyEst(p) ==
    /\ pc[p] = "apply_est"
    /\ pc' = [pc EXCEPT ![p] = "apply_write"]
    /\ loc' = [loc EXCEPT ![p].est =
                  CalculateRemainingDays(inventory, usageLog, loc[p].fragranceId)]
    /\ UNCHANGED <<inventory, usageLog, dailyWear, last>>

\* updateInventory and updateInventoryFromUsage: inventoryRepo.update with the
\* level computed from the record read at the start
ApplyWrite(p) ==
    /\ pc[p] = "apply_write"
    /\ inventory' = RepoUpdate(inventory, loc[p].found[1].id,
                        [NoUpdate EXCEPT
                           !.currentLevel =
                               Some(NewLevel(loc[p].found[1], loc[p].usage)),
                           !.estimatedDaysRemaining = Some(loc[p].est)])
    /\ Done(p, loc[p].op, "ok", loc[p].fragranceId)
    /\ UNCHANGED <<usageLog, dailyWear>>

\* updateInventoryRecord up to the answer of findByFragranceId
EditFind(p) ==
    \E f \in ConcFragrances, data \in ConcEdits :
        LET found == FindByFragranceId(inventory, f)
        IN  /\ pc[p] = "idle"
            /\ IF found = None
               THEN Done(p, "updateInventoryRecord", "NotFound", f)
               ELSE /\ pc' = [pc EXCEPT ![p] =
                                 IF data.currentLevel # None
                                 THEN "edit_est" ELSE "edit_write"]
                    /\ loc' = [loc EXCEPT ![p] =
                                  [IdleLoc EXCEPT !.op = "updateInventoryRecord",
                                                  !.fragranceId = f,
                                                  !.data = data,
                                                  !.found = found]]
                    /\ last' = last
            /\ UNCHANGED <<inventory, usageLog, dailyWear>>

\* updateInventoryRecord: calculateRemainingDays
EditEst(p) ==
    /\ pc[p] = "edit_est"
    /\ pc' = [pc EXCEPT ![p] = "edit_write"]
    /\ loc' = [loc EXCEPT ![p].data.estimatedDaysRemaining =
                  Some(CalculateRemainingDays(inventory, usageLog,
                                              loc[p].fragranceId))]
    /\ UNCHANGED <<inventory, usageLog, dailyWear, last>>

\* updateInventoryRecord: inventoryRepo.update
EditWrite(p) ==
    /\ pc[p] = "edit_write"
    /\ inventory' = RepoUpdate(inventory, loc[p].found[1].id, loc[p].data)
    /\ Done(p, "updateInventoryRecord", "ok", loc[p].fragranceId)
    /\ UNCHANGED <<usageLog, dailyWear>>

\* recalculateAllEstimates up to the answer of findByUserId
SweepStart(p) ==
    /\ pc[p] = "idle"
    /\ pc' = [pc EXCEPT ![p] = "sweep_find"]
    /\ loc' = [loc EXCEPT ![p] =
                  [IdleLoc EXCEPT !.op = "recalculateAllEstimates",
                                  !.todo = FindOwnedByUserId("temp-user-id")]]
    /\ UNCHANGED <<inventory, usageLog, dailyWear, last>>

\* recalculateAllEstimates: findByFragranceId for the next fragrance
SweepFind(p) ==
    /\ pc[p] = "sweep_find"
    /\ IF loc[p].todo = <<>>
       THEN Done(p, "recalculateAllEstimates", "ok", "f1")
       ELSE LET found == FindByFragranceId(inventory, Head(loc[p].todo))
            IN  /\ last' = last
                /\ IF found # None /\ found[1].usageTracking
                   THEN /\ pc' = [pc EXCEPT ![p] = "sweep_est"]
                        /\ loc' = [loc EXCEPT ![p].found = found,
                                              ![p].fragranceId = Head(loc[p].todo)]
                   ELSE /\ pc' = pc
                        /\ loc' = [loc EXCEPT ![p].todo = Tail(loc[p].todo)]
    /\ UNCHANGED <<inventory, usageLog, dailyWear>>

\* recalculateAllEstimates: calculateRemainingDays
SweepEst(p) ==
    /\ pc[p] = "sweep_est"
    /\ pc' = [pc EXCEPT ![p] = "sweep_write"]
    /\ loc' = [loc EXCEPT ![p].est =
                  CalculateRemainingDays(inventory, usageLog, loc[p].fragranceId)]
    /\ UNCHANGED <<inventory, usageLog, dailyWear, last>>

\* recalculateAllEstimates writing back the whole record it read, with the
\* new estimate
SweepWriteWholeRecord(p) ==
    /\ pc[p] = "sweep_write"
    /\ inventory' = RepoUpdate(inventory, loc[p].found[1].id,
                        [bottleSize |-> Some(loc[p].found[1].bottleSize),
                         currentLevel |-> Some(loc[p].found[1].currentLevel),
                         usageTracking |-> Some(loc[p].found[1].usageTracking),
                         lowThreshold |-> Some(loc[p].found[1].lowThreshold),
                         estimatedDaysRemaining |-> Some(loc[p].est)])
    /\ pc' = [pc EXCEPT ![p] = "sweep_find"]
    /\ loc' = [loc EXCEPT ![p].todo = Tail(loc[p].todo),
                          ![p].found = None, ![p].est = 0]
    /\ UNCHANGED <<usageLog, dailyWear, last>>
\* recalculateAllEstimates: inventoryRepo.update of the estimate alone
SweepWrite(p) ==
    /\ pc[p] = "sweep_write"
    /\ inventory' = RepoUpdate(inventory, loc[p].found[1].id,
                        [NoUpdate EXCEPT
                           !.estimatedDaysRemaining = Some(loc[p].est)])
    /\ pc' = [pc EXCEPT ![p] = "sweep_find"]
    /\ loc' = [loc EXCEPT ![p].todo = Tail(loc[p].todo),
                          ![p].found = None, ![p].est = 0]
    /\ UNCHANGED <<usageLog, dailyWear, last>>

NextC ==
    \E p \in Procs :
        \/ CreateFind(p)
        \/ CreateInsert(p)
        \/ UpdateFind(p)
        \/ UpdateLog(p)
        \/ WearLogFind(p)
        \/ ApplyEst(p)
        \/ ApplyWrite(p)
        \/ EditFind(p)
        \/ EditEst(p)
        \/ EditWrite(p)
        \/ SweepStart(p)
        \/ SweepFind(p)
        \/ SweepEst(p)
        \/ SweepWrite(p)

SpecC == InitC /\ [][NextC]_vars

\* Usage updates, direct and wear-triggered, and sweeps on one fragrance
NextUsageRace ==
    \E p \in Procs :
        \/ CreateFind(p)
        \/ CreateInsert(p)
        \/ UpdateFind(p)
        \/ UpdateLog(p)
        \/ WearLogFind(p)
        \/ ApplyEst(p)
        \/ ApplyWrite(p)
        \/ SweepStart(p)
        \/ SweepFind(p)
        \/ SweepEst(p)
        \/ SweepWrite(p)

SpecUsageRace == InitC /\ [][NextUsageRace]_vars

-----------------------------------------------------------------------------
(* Vocabulary of the properties *)

HasRow(inv, f) == \E i \in DOMAIN inv : inv[i].fragranceId = f

\* the stored row of fragrance f
Row(inv, f) == inv[Min({i \in DOMAIN inv : inv[i].fragranceId = f})]

RowsOf(inv, f) == {i \in DOMAIN inv : inv[i].fragranceId = f}

CountFor(log, f) == Cardinality({i \in DOMAIN log : log[i].fragranceId = f})

SpraysFor(entries, f) ==
    Cardinality({i \in DOMAIN entries :
                    entries[i].fragranceId = f /\ entries[i].sprayCount # None})

\* the usage u of a direct update: the supplied estimate, else 0.1 ml a spray
DirectU(usage) ==
    IF usage.estimatedUsage = None
    THEN usage.sprayCount * SPRAY_TO_ML_RATIO
    ELSE usage.estimatedUsage[1]

\* the level after deducting u (1/100 ml) from a bottle of b ml at level l
Deducted(l, b, u) ==
    IF l * b - u * 100 <= 0 THEN 0 ELSE (l * b - u * 100) \div b

-----------------------------------------------------------------------------
\* C1: after every usage update, direct or wear-triggered, every stored
\* currentLevel is within 0 and 100 percent.
InvC1LevelInRange ==
    \A i \in DOMAIN inventory :
        /\ inventory[i].currentLevel >= 0
        /\ inventory[i].currentLevel <= Percent(100)

\* a wear recording and then a direct update have drained a tracked bottle
WitC1Drained ==
    /\ last.op = "updateInventory"
    /\ last.result = "ok"
    /\ dailyWear # <<>>
    /\ Len(usageLog) >= 2
    /\ Row(inventory, last.fragranceId).usageTracking
    /\ Row(inventory, last.fragranceId).currentLevel = 0

\* C4: on a tracked record a direct update with usage u stores
\* max(0, level - u / bottleSize * 100), u being the supplied estimate or
\* 0.1 ml a spray, and appends a usage entry that holds the same u.
ActC4Deduction ==
    [][\A f \in Fragrances :
          (/\ last'.op = "updateInventory"
           /\ last'.fragranceId = f
           /\ HasRow(inventory, f)
           /\ Row(inventory, f).usageTracking)
          => /\ Row(inventory', f).currentLevel =
                    Deducted(Row(inventory, f).currentLevel,
                             Row(inventory, f).bottleSize,
                             DirectU(last'.usage))
             /\ usageLog' = Append(usageLog,
                    [fragranceId |-> f, date |-> last'.usage.date,
                     sprayCount |-> last'.usage.sprayCount,
                     estimatedUsage |-> Some(DirectU(last'.usage))])]_vars

\* scenario 1 of the specification: 100 ml at 80 percent, 5 sprays, 79.5 percent
WitC4Scenario ==
    /\ last.op = "updateInventory"
    /\ last.result = "ok"
    /\ last.usage.sprayCount = 5
    /\ last.usage.estimatedUsage = None
    /\ Row(inventory, last.fragranceId).usageTracking
    /\ Row(inventory, last.fragranceId).bottleSize = 100
    /\ Row(inventory, last.fragranceId).currentLevel = 7950
    /\ usageLog[Len(usageLog)].estimatedUsage = Some(50)

\* C5: the estimate a direct update persists with the new level is the
\* estimator's result for that new level.
CexC5EstimateForNewLevel ==
    (/\ last.op = "updateInventory"
     /\ last.result = "ok"
     /\ Row(inventory, last.fragranceId).usageTracking)
    => Row(inventory, last.fragranceId).estimatedDaysRemaining =
           Some(CalculateRemainingDays(inventory, usageLog, last.fragranceId))

\* C6: with usage tracking disabled a usage update leaves the record as it
\* is, and the usage entry is appended all the same.
ActC6TrackingDisabled ==
    [][/\ (/\ last'.op = "updateInventory"
           /\ HasRow(inventory, last'.fragranceId)
           /\ ~Row(inventory, last'.fragranceId).usageTracking)
          => /\ inventory' = inventory
             /\ Len(usageLog') = Len(usageLog) + 1
             /\ SubSeq(usageLog', 1, Len(usageLog)) = usageLog
             /\ usageLog'[Len(usageLog')].fragranceId = last'.fragranceId
             /\ usageLog'[Len(usageLog')].sprayCount = last'.usage.sprayCount
       /\ (last'.op = "recordDailyWear" /\ last'.result = "ok")
          => \A f \in Fragrances :
                (HasRow(inventory, f) /\ ~Row(inventory, f).usageTracking)
                => /\ Row(inventory', f) = Row(inventory, f)
                   /\ CountFor(usageLog', f) =
                          CountFor(usageLog, f)
                              + SpraysFor(last'.returned.entries, f)]_vars

\* a wear recording with sprays of a fragrance whose tracking is disabled
WitC6WearUntracked ==
    /\ last.op = "recordDailyWear"
    /\ last.result = "ok"
    /\ \E f \in Fragrances :
          /\ HasRow(inventory, f)
          /\ ~Row(inventory, f).usageTracking
          /\ SpraysFor(last.returned.entries, f) > 0
          /\ CountFor(usageLog, f) > 0

\* C7: a direct update for a fragrance without a record fails with NotFound
\* and changes neither the ledger nor the usage log.
ActC7NotFound ==
    [][(/\ last'.op = "updateInventory"
        /\ ~HasRow(inventory, last'.fragranceId))
       => /\ last'.result = "NotFound"
          /\ inventory' = inventory
          /\ usageLog' = usageLog]_vars

\* a direct update has failed with NotFound while the other fragrance has a
\* record
WitC7NotFound ==
    /\ last.op = "updateInventory"
    /\ last.result = "NotFound"
    /\ inventory # <<>>

\* the calls recordDailyWear is to make for its entries, in order
RECURSIVE ExpectedCalls(_)
ExpectedCalls(entries) ==
    IF entries = <<>> THEN <<>>
    ELSE IF Head(entries).sprayCount # None
    THEN <<<<"usageEntryRepo.create", Head(entries).fragranceId>>,
           <<"updateInventoryFromUsage", Head(entries).fragranceId>>>>
         \o ExpectedCalls(Tail(entries))
    ELSE ExpectedCalls(Tail(entries))

\* the usage entries recordDailyWear is to append for its entries, in order
RECURSIVE ExpectedEvents(_, _)
ExpectedEvents(entries, date) ==
    IF entries = <<>> THEN <<>>
    ELSE IF Head(entries).sprayCount # None
    THEN <<[fragranceId |-> Head(entries).fragranceId, date |-> date,
            sprayCount |-> Head(entries).sprayCount[1],
            estimatedUsage |-> Some(Head(entries).sprayCount[1] * 10)]>>
         \o ExpectedEvents(Tail(entries), date)
    ELSE ExpectedEvents(Tail(entries), date)

CallNames(calls) ==
    [i \in DOMAIN calls |-> <<calls[i].call, calls[i].fragranceId>>]

\* C8: recordDailyWear returns the created record although a usage update of
\* one of its entries fails; the usage entry of the failing entry stays in
\* the log and the entries after it are processed.
ActC8WearSurvivesFailure ==
    [][(/\ last'.op = "recordDailyWear"
        /\ FindByUserAndDate(dailyWear, last'.userId, last'.date) = None)
       => /\ last'.result = "ok"
          /\ dailyWear' = Append(dailyWear, last'.returned)
          /\ \A f \in Fragrances :
                /\ CountFor(usageLog', f) =
                       CountFor(usageLog, f)
                           + SpraysFor(last'.returned.entries, f)
                /\ (/\ SpraysFor(last'.returned.entries, f) > 0
                    /\ HasRow(inventory, f)
                    /\ Row(inventory, f).usageTracking
                    /\ Row(inventory, f).currentLevel > 0)
                   => Row(inventory', f).currentLevel
                          < Row(inventory, f).currentLevel]_vars

\* the update of the first entry failed with NotFound, the update of the
\* second entry went through
WitC8FailedThenProcessed ==
    /\ last.op = "recordDailyWear"
    /\ last.result = "ok"
    /\ Len(last.calls) = 4
    /\ last.calls[2].result = "NotFound"
    /\ last.calls[4].result = "ok"
    /\ Row(inventory, last.calls[4].fragranceId).usageTracking
    /\ Len(usageLog) >= 2

\* C9: recordDailyWear appends one usage entry (0.1 ml a spray) and then
\* makes one usage update for each entry with sprays, in entry order, none
\* for an entry without a spray count; when a record of that user and date
\* exists it fails and changes neither the usage log nor the ledger.
ActC9WearCalls ==
    [][last'.op = "recordDailyWear"
       => IF FindByUserAndDate(dailyWear, last'.userId, last'.date) # None
          THEN /\ last'.result = "AlreadyExists"
               /\ usageLog' = usageLog
               /\ inventory' = inventory
               /\ dailyWear' = dailyWear
          ELSE /\ CallNames(last'.calls) =
                      ExpectedCalls(last'.returned.entries)
               /\ usageLog' = usageLog
                      \o ExpectedEvents(last'.returned.entries, last'.date)]_vars

\* a recording with one entry with sprays and one without
WitC9MixedEntries ==
    /\ last.op = "recordDailyWear"
    /\ last.result = "ok"
    /\ Len(last.returned.entries) = 2
    /\ last.returned.entries[1].sprayCount = None
    /\ last.returned.entries[2].sprayCount # None
    /\ Len(last.calls) = 2
    /\ Len(usageLog) = 1

\* C10: createInventory for a fragrance that has a record fails with
\* AlreadyExists; the stored records stay as they are and none is added.
ActC10AlreadyExists ==
    [][(/\ last'.op = "createInventory"
        /\ HasRow(inventory, last'.fragranceId))
       => /\ last'.result = "AlreadyExists"
          /\ inventory' = inventory
          /\ usageLog' = usageLog]_vars

\* a second createInventory for a fragrance whose level has moved since
WitC10AlreadyExists ==
    /\ last.op = "createInventory"
    /\ last.result = "AlreadyExists"
    /\ Cardinality(RowsOf(inventory, last.fragranceId)) = 1
    /\ Row(inventory, last.fragranceId).estimatedDaysRemaining # None

-----------------------------------------------------------------------------
\* C2: under concurrent usage updates and sweeps a stored currentLevel never
\* increases from one stored state to the next, unless the step is the write
\* of a record edit.
CexC2LevelNeverIncreases ==
    [][\A i \in DOMAIN inventory :
          inventory'[i].currentLevel > inventory[i].currentLevel
          => \E p \in Procs : pc[p] = "edit_write" /\ pc'[p] = "idle"]_vars

\* C3: under concurrent createInventory calls there is at most one inventory
\* record per fragrance.
CexC3OneRecordPerFragrance ==
    \A f \in Fragrances : Cardinality(RowsOf(inventory, f)) <= 1

-----------------------------------------------------------------------------
(* Create defaults *)

\* C11: createInventory stores every supplied field unchanged and applies a
\* default (level 100, tracking on, threshold 20) only to an omitted field.
CexC11DefaultsOnlyForOmitted ==
    (last.op = "createInventory" /\ last.result = "ok")
    => LET r == Row(inventory, last.fragranceId)
           d == last.data
       IN  /\ r.currentLevel = IF d.currentLevel = None THEN DEFAULT_LEVEL
                               ELSE d.currentLevel[1]
           /\ r.usageTracking = IF d.usageTracking = None THEN TRUE
                                ELSE d.usageTracking[1]
           /\ r.lowThreshold = IF d.lowThreshold = None
                               THEN DEFAULT_LOW_THRESHOLD
                               ELSE d.lowThreshold[1]

-----------------------------------------------------------------------------
(* Record edits *)

\* PUT /api/inventory/:fragranceId bodies
UpdateInventoryDtos ==
    [bottleSize : {None}, 
     currentLevel : {None, Some(0), Some(Percent(20)), Some(Percent(80))},
     usageTracking : {None},
     lowThreshold : {None, Some(Percent(30))},
     estimatedDaysRemaining : {None}]

EditCreateDtos ==
    [fragranceId : Fragrances, bottleSize : {100},
     currentLevel : {None, Some(Percent(50))}, usageTracking : {None},
     lowThreshold : {None}]

\* updateInventoryRecord: the estimate is computed from the stored record
\* before inventoryRepo.update writes the edited fields
UpdateInventoryRecordFn(inv, log, f, data) ==
    LET found == FindByFragranceId(inv, f)
        data2 == IF data.currentLevel # None
                 THEN [data EXCEPT !.estimatedDaysRemaining =
                          Some(CalculateRemainingDays(inv, log, f))]
                 ELSE data
    IN  IF found = None THEN [inv |-> inv, result |-> "NotFound"]
        ELSE [inv |-> RepoUpdate(inv, found[1].id, data2), result |-> "ok"]

\* updateInventoryRecord (PUT /api/inventory/:fragranceId)
UpdateInventoryRecord(dtos) ==
    \E f \in Fragrances, data \in dtos :
        LET r == UpdateInventoryRecordFn(inventory, usageLog, f, data)
        IN  /\ inventory' = r.inv
            /\ last' = [op |-> "updateInventoryRecord", result |-> r.result,
                        fragranceId |-> f, data |-> data]
            /\ UNCHANGED <<usageLog, dailyWear, pc, loc>>

\* The ledger under creates and record edits
NextEdit ==
    \/ CreateInventory(EditCreateDtos)
    \/ UpdateInventoryRecord(UpdateInventoryDtos)

SpecEdit == Init /\ [][NextEdit]_vars

\* C12: an edit that carries currentLevel persists that level together with
\* the estimator's result for the edited level; an edit that fails with
\* NotFound writes nothing.
CexC12EditEstimateForEditedLevel ==
    [][last'.op = "updateInventoryRecord"
       => /\ last'.result = "NotFound"
             => UNCHANGED <<inventory, usageLog, dailyWear>>
          /\ (last'.result = "ok" /\ last'.data.currentLevel # None)
             => /\ Row(inventory', last'.fragranceId).currentLevel
                       = last'.data.currentLevel[1]
                /\ Row(inventory', last'.fragranceId).estimatedDaysRemaining
                       = Some(CalculateRemainingDays(inventory', usageLog',
                                                     last'.fragranceId))]_vars

-----------------------------------------------------------------------------
(* The estimator, applied to ledgers and usage logs the program can hold.   *)
(* The usage entries are those recordDailyWear stores for wear dates around *)
(* the 30-day window (a wear recording stores its entry also when the       *)
(* fragrance has no record yet); the record is created afterwards, and may  *)
(* then be edited to an empty bottle.                                        *)

MaxEstLog == 3     \* rows of usage_entries the estimator reads

EstDates == {Today - WINDOW_DAYS - 1, Today - WINDOW_DAYS, Today, Today + 1}

EstEvents ==
    {WearEntryData([fragranceId |-> "f1", sprayCount |-> Some(n)], d) :
         n \in SprayCounts, d \in EstDates}
    \cup {WearEntryData([fragranceId |-> "f2", sprayCount |-> Some(5)], Today)}

EstLogs == UNION {[1..n -> EstEvents] : n \in 0..MaxEstLog}

EstCreateDtos ==
    [fragranceId : {"f1"}, bottleSize : BottleSizes,
     currentLevel : {Some(Percent(3)), Some(Percent(50))},
     usageTracking : {None}, lowThreshold : {None}]

EstLedgers(log) ==
    {<<>>}
    \cup {RepoCreate(<<>>, CreateDefaults(d)) : d \in EstCreateDtos}
    \cup {UpdateInventoryRecordFn(RepoCreate(<<>>, CreateDefaults(d)), log,
              "f1", [NoUpdate EXCEPT !.currentLevel = Some(0)]).inv :
              d \in EstCreateDtos}

InitEst ==
    /\ usageLog \in EstLogs
    /\ inventory \in EstLedgers(usageLog)
    /\ dailyWear = <<>>
    /\ last = [op |-> "none", result |-> "ok"]
    /\ pc = NoRequests
    /\ loc = NoRequests

\* getRemainingDays (GET /api/inventory/:fragranceId/remaining-days) with a
\* write-back of the computed estimate into the record
GetRemainingDaysCaches ==
    \E f \in Fragrances :
        LET days == CalculateRemainingDays(inventory, usageLog, f)
            found == FindByFragranceId(inventory, f)
        IN  /\ last' = [op |-> "calculateRemainingDays", result |-> "ok",
                        fragranceId |-> f, value |-> days,
                        again |-> (last.op = "calculateRemainingDays"
                                   /\ last.fragranceId = f)]
            /\ inventory' =
                   IF found = None THEN inventory
                   ELSE RepoUpdate(inventory, found[1].id,
                            [NoUpdate EXCEPT !.estimatedDaysRemaining = Some(days)])
            /\ UNCHANGED <<usageLog, dailyWear, pc, loc>>
\* getRemainingDays: calculateRemainingDays never throws on a missing record,
\* the controller answers with the number it returns
GetRemainingDays ==
    \E f \in Fragrances :
        /\ last' = [op |-> "calculateRemainingDays", result |-> "ok",
                    fragranceId |-> f,
                    value |-> CalculateRemainingDays(inventory, usageLog, f),
                    again |-> (last.op = "calculateRemainingDays"
                               /\ last.fragranceId = f)]
        /\ UNCHANGED <<inventory, usageLog, dailyWear, pc, loc>>

NextEst == GetRemainingDays

SpecEst == InitEst /\ [][NextEst]_vars


\* the usage entries of fragrance f dated from 30 days ago through today
InWindow(e) == e.date >= Today - WINDOW_DAYS /\ e.date <= Today

WindowEvents(log, f) ==
    LET keep(e) == e.fragranceId = f /\ InWindow(e)
    IN  SelectSeq(log, keep)

OutsideEvents(log, f) ==
    LET keep(e) == e.fragranceId = f /\ ~InWindow(e)
    IN  SelectSeq(log, keep)

RECURSIVE TotalUsageMl(_)
TotalUsageMl(events) ==
    IF events = <<>> THEN 0
    ELSE (IF Head(events).estimatedUsage = None
          THEN Head(events).sprayCount * SPRAY_TO_ML_RATIO
          ELSE Head(events).estimatedUsage[1])
         + TotalUsageMl(Tail(events))

DistinctUsageDays(events) ==
    Cardinality({events[i].date : i \in DOMAIN events})

\* remaining ml of a record, times 100
RemainingMl(r) == r.currentLevel * r.bottleSize

Estimated == last.op = "calculateRemainingDays"

\* C13: for a record at level 0 the estimator returns 0 whatever usage
\* entries the fragrance has, inside or outside the 30-day window.
InvC13EmptyBottleZero ==
    (/\ Estimated
     /\ HasRow(inventory, last.fragranceId)
     /\ Row(inventory, last.fragranceId).currentLevel = 0)
    => last.value = 0

\* an empty bottle with usage inside and outside the window
WitC13EmptyWithUsage ==
    /\ Estimated
    /\ HasRow(inventory, last.fragranceId)
    /\ Row(inventory, last.fragranceId).currentLevel = 0
    /\ WindowEvents(usageLog, last.fragranceId) # <<>>
    /\ OutsideEvents(usageLog, last.fragranceId) # <<>>
    /\ last.value = 0

\* C14: for a record above level 0 with no usage entry in the trailing 30
\* days the estimator returns floor(remainingMl / 0.5), older entries or not.
InvC14ConservativeEstimate ==
    (/\ Estimated
     /\ HasRow(inventory, last.fragranceId)
     /\ Row(inventory, last.fragranceId).currentLevel > 0
     /\ WindowEvents(usageLog, last.fragranceId) = <<>>)
    => last.value = RemainingMl(Row(inventory, last.fragranceId))
                        \div (100 * BASELINE_DAILY_ML)

\* 100 ml at 50 percent, only an entry older than the window: 100 days
WitC14OlderUsageOnly ==
    /\ Estimated
    /\ HasRow(inventory, last.fragranceId)
    /\ Row(inventory, last.fragranceId).currentLevel = Percent(50)
    /\ Row(inventory, last.fragranceId).bottleSize = 100
    /\ WindowEvents(usageLog, last.fragranceId) = <<>>
    /\ \E i \in DOMAIN usageLog :
           /\ usageLog[i].fragranceId = last.fragranceId
           /\ usageLog[i].date < Today - WINDOW_DAYS
    /\ last.value = 100

\* C15: for a record above level 0 with usage in the window the estimator
\* returns max(0, floor(remainingMl / (totalUsageMl / distinctUsageDays))),
\* the total taken over exactly the entries dated from 30 days ago through
\* today, the days counted as distinct dates.
InvC15AverageOverUsageDays ==
    (/\ Estimated
     /\ HasRow(inventory, last.fragranceId)
     /\ Row(inventory, last.fragranceId).currentLevel > 0
     /\ WindowEvents(usageLog, last.fragranceId) # <<>>)
    => LET w == WindowEvents(usageLog, last.fragranceId)
       IN  last.value =
               Max2(0, (RemainingMl(Row(inventory, last.fragranceId))
                            * DistinctUsageDays(w))
                       \div (100 * TotalUsageMl(w)))

\* two entries on one date in the window and one entry outside it
WitC15SameDayAndExcluded ==
    /\ Estimated
    /\ HasRow(inventory, last.fragranceId)
    /\ Row(inventory, last.fragranceId).currentLevel > 0
    /\ Len(WindowEvents(usageLog, last.fragranceId)) = 2
    /\ DistinctUsageDays(WindowEvents(usageLog, last.fragranceId)) = 1
    /\ OutsideEvents(usageLog, last.fragranceId) # <<>>
    /\ last.value > 0

\* C16: the estimator is a pure read: a call changes neither ledger nor
\* usage log, and a second call right after the first returns the same value.
ActC16EstimatorPureRead ==
    [][last'.op = "calculateRemainingDays"
       => /\ inventory' = inventory
          /\ usageLog' = usageLog
          /\ (Estimated /\ last.fragranceId = last'.fragranceId)
             => last'.value = last.value]_vars

\* a second call in a row on a record whose cached estimate differs from the
\* value returned
WitC16CalledTwice ==
    /\ Estimated
    /\ last.again
    /\ HasRow(inventory, last.fragranceId)
    /\ last.value > 0
    /\ Row(inventory, last.fragranceId).estimatedDaysRemaining # Some(last.value)

\* C17: the estimator raises NotFound for a fragrance without a record.
CexC17EstimatorNotFound ==
    (Estimated /\ ~HasRow(inventory, last.fragranceId))
    => last.result = "NotFound"

-----------------------------------------------------------------------------
(* Low-stock alerts and the sweep, over a catalog shared by two users *)

\* table fragrances, newest first (ORDER BY created_at DESC)
CatalogRows ==
    <<[id |-> "f4", userId |-> "temp-user-id", listType |-> "wishlist"],
      [id |-> "f3", userId |-> "other-user", listType |-> "owned"],
      [id |-> "f2", userId |-> "temp-user-id", listType |-> "owned"],
      [id |-> "f1", userId |-> "temp-user-id", listType |-> "owned"]>>

CatalogIds == {CatalogRows[i].id : i \in DOMAIN CatalogRows}

AlertUsers == {"temp-user-id", "other-user"}

\* FragranceRepository.findByUserId(userId, { listType }): no pagination
FindByUserId(userId, listType) ==
    LET keep(r) == r.userId = userId /\ r.listType = listType
    IN  SelectSeq(CatalogRows, keep)

\* alerts.sort((a, b) => a.currentLevel - b.currentLevel): stable
RECURSIVE InsertByLevel(_, _)
InsertByLevel(sorted, a) ==
    IF sorted = <<>> THEN <<a>>
    ELSE IF a.currentLevel < Head(sorted).currentLevel THEN <<a>> \o sorted
    ELSE <<Head(sorted)>> \o InsertByLevel(Tail(sorted), a)

RECURSIVE SortByLevelTail(_, _)
SortByLevelTail(alerts, sorted) ==
    IF alerts = <<>> THEN sorted
    ELSE SortByLevelTail(Tail(alerts), InsertByLevel(sorted, Head(alerts)))

SortByLevelKeepsOrder(alerts) == alerts
SortByLevel(alerts) == SortByLevelTail(alerts, <<>>)

\* the loop of getLowInventoryAlerts over the owned fragrances of the user
RECURSIVE CollectAlerts(_, _)
CollectAlerts(fragrances, inv) ==
    IF fragrances = <<>> THEN <<>>
    ELSE LET found == FindByFragranceId(inv, Head(fragrances).id)
         IN  (IF found # None /\ found[1].currentLevel <= found[1].lowThreshold
              THEN <<[fragranceId |-> Head(fragrances).id,
                      currentLevel |-> found[1].currentLevel,
                      threshold |-> found[1].lowThreshold,
                      estimatedDaysRemaining |->
                          found[1].estimatedDaysRemaining]>>
              ELSE <<>>)
             \o CollectAlerts(Tail(fragrances), inv)

\* getLowInventoryAlerts
LowInventoryAlerts(inv, userId) ==
    SortByLevel(CollectAlerts(FindByUserId(userId, "owned"), inv))

\* the loop of recalculateAllEstimates
RECURSIVE RecalculateLoop(_, _, _)
RecalculateLoop(fragrances, inv, log) ==
    IF fragrances = <<>> THEN inv
    ELSE LET f == Head(fragrances).id
             found == FindByFragranceId(inv, f)
         IN  RecalculateLoop(Tail(fragrances),
                 IF found # None /\ found[1].usageTracking
                 THEN RepoUpdate(inv, found[1].id,
                          [NoUpdate EXCEPT !.estimatedDaysRemaining =
                              Some(CalculateRemainingDays(inv, log, f))])
                 ELSE inv,
                 log)

\* recalculateAllEstimates: the owned fragrances of 'temp-user-id' only
RecalculateAllEstimatesFn(inv, log) ==
    RecalculateLoop(FindByUserId("temp-user-id", "owned"), inv, log)

AlertCreateDtos ==
    [fragranceId : {"f1"}, bottleSize : {2},
     currentLevel : {Some(Percent(3)), Some(Percent(20)), Some(Percent(50))},
     usageTracking : CreateTrackings, lowThreshold : {None}]
    \cup [fragranceId : {"f2"}, bottleSize : {2},
          currentLevel : {Some(Percent(20))},
          usageTracking : {None}, lowThreshold : {None}]
    \cup [fragranceId : {"f3", "f4"}, bottleSize : {2},
          currentLevel : {Some(Percent(3))},
          usageTracking : {None}, lowThreshold : {None}]

AlertUsages ==
    [date : {Today}, sprayCount : {5}, estimatedUsage : {None}]

\* getLowInventoryAlerts (GET /api/inventory/alerts)
GetLowInventoryAlerts ==
    \E userId \in AlertUsers :
        /\ last' = [op |-> "getLowInventoryAlerts", result |-> "ok",
                    userId |-> userId,
                    alerts |-> LowInventoryAlerts(inventory, userId)]
        /\ UNCHANGED <<inventory, usageLog, dailyWear, pc, loc>>

\* recalculateAllEstimates (POST /api/inventory/recalculate, the scheduler)
RecalculateAllEstimates ==
    /\ inventory' = RecalculateAllEstimatesFn(inventory, usageLog)
    /\ last' = [op |-> "recalculateAllEstimates", result |-> "ok"]
    /\ UNCHANGED <<usageLog, dailyWear, pc, loc>>

NextAlerts ==
    \/ CreateInventory(AlertCreateDtos)
    \/ UpdateInventory(AlertUsages)
    \/ GetLowInventoryAlerts
    \/ RecalculateAllEstimates

SpecAlerts == Init /\ [][NextAlerts]_vars


Listed == last.op = "getLowInventoryAlerts"

\* the catalog entry of fragrance f
CatalogEntry(f) ==
    CatalogRows[CHOOSE i \in DOMAIN CatalogRows : CatalogRows[i].id = f]

\* fragrance f is due an alert for the user
LowFor(inv, f, userId) ==
    /\ CatalogEntry(f).userId = userId
    /\ CatalogEntry(f).listType = "owned"
    /\ HasRow(inv, f)
    /\ Row(inv, f).currentLevel <= Row(inv, f).lowThreshold

AlertsFor(alerts, f) == {i \in DOMAIN alerts : alerts[i].fragranceId = f}

\* C18: getLowInventoryAlerts(userId) returns exactly one alert for each
\* owned fragrance of the user that has a record with currentLevel <=
\* lowThreshold, none for any other fragrance, ordered by ascending level.
InvC18AlertsExactAndSorted ==
    Listed
    => /\ \A f \in CatalogIds :
              Cardinality(AlertsFor(last.alerts, f))
                  = IF LowFor(inventory, f, last.userId) THEN 1 ELSE 0
       /\ \A i \in DOMAIN last.alerts :
              /\ last.alerts[i].fragranceId \in CatalogIds
              /\ last.alerts[i].currentLevel
                     = Row(inventory, last.alerts[i].fragranceId).currentLevel
       /\ \A i, j \in DOMAIN last.alerts :
              i < j => last.alerts[i].currentLevel <= last.alerts[j].currentLevel

\* two alerts that the sort had to reorder, the second exactly at its
\* threshold, while a low record of another user and a low record of a
\* wishlist fragrance are not reported
WitC18TwoAlertsReordered ==
    /\ Listed
    /\ last.userId = "temp-user-id"
    /\ Len(last.alerts) = 2
    /\ last.alerts[1].fragranceId = "f1"
    /\ last.alerts[2].fragranceId = "f2"
    /\ last.alerts[1].currentLevel < last.alerts[2].currentLevel
    /\ last.alerts[2].currentLevel = last.alerts[2].threshold
    /\ HasRow(inventory, "f3")
    /\ Row(inventory, "f3").currentLevel <= Row(inventory, "f3").lowThreshold
    /\ HasRow(inventory, "f4")
    /\ Row(inventory, "f4").currentLevel <= Row(inventory, "f4").lowThreshold

\* C19: every alert carries the estimatedDaysRemaining persisted for its
\* record, a persisted 0 and a never-estimated record included.
CexC19AlertCarriesPersistedEstimate ==
    Listed
    => \A i \in DOMAIN last.alerts :
           last.alerts[i].estimatedDaysRemaining
               = Row(inventory, last.alerts[i].fragranceId).estimatedDaysRemaining

\* C20: after a sweep every record with usageTracking on, whoever owns its
\* fragrance and whatever list it is on, holds the estimator's result for its
\* current state, and every record with usageTracking off is unchanged.
CexC20SweepCoversAllTracked ==
    [][last'.op = "recalculateAllEstimates"
       => /\ DOMAIN inventory' = DOMAIN inventory
          /\ \A i \in DOMAIN inventory :
                 IF inventory[i].usageTracking
                 THEN inventory'[i].estimatedDaysRemaining
                          = Some(CalculateRemainingDays(inventory', usageLog',
                                     inventory'[i].fragranceId))
                 ELSE inventory'[i] = inventory[i]]_vars

-----------------------------------------------------------------------------
(* The sweep with a failing repository call.  A fault names the fragrance    *)
(* and the call that rejects while the sweep processes it: "load" is         *)
(* inventoryRepo.findByFragranceId, "estimate" calculateRemainingDays,       *)
(* "persist" inventoryRepo.update.                                           *)

NoFault == [fragranceId |-> "none", stage |-> "none"]

SweepFaults ==
    {NoFault}
    \cup [fragranceId : Fragrances, stage : {"load", "estimate", "persist"}]

\* the loop of recalculateAllEstimates: findByFragranceId is awaited outside
\* the try block, calculateRemainingDays and update inside it
RECURSIVE RecalculateLoopFaulty(_, _, _, _)
RecalculateLoopFaulty(fragrances, inv, log, fault) ==
    IF fragrances = <<>> THEN [inv |-> inv, thrown |-> FALSE]
    ELSE LET f == Head(fragrances).id
             found == FindByFragranceId(inv, f)
             hit(stage) == fault.fragranceId = f /\ fault.stage = stage
         IN  IF hit("load") THEN [inv |-> inv, thrown |-> TRUE]
             ELSE IF found # None /\ found[1].usageTracking
                     /\ ~hit("estimate") /\ ~hit("persist")
             THEN RecalculateLoopFaulty(Tail(fragrances),
                      RepoUpdate(inv, found[1].id,
                          [NoUpdate EXCEPT !.estimatedDaysRemaining =
                              Some(CalculateRemainingDays(inv, log, f))]),
                      log, fault)
             ELSE RecalculateLoopFaulty(Tail(fragrances), inv, log, fault)

SweepCreateDtos ==
    [fragranceId : Fragrances, bottleSize : BottleSizes,
     currentLevel : {None, Some(Percent(50))}, usageTracking : {None},
     lowThreshold : {None}]

\* recalculateAllEstimates while one repository call may reject
RecalculateWithFault ==
    \E fault \in SweepFaults :
        LET r == RecalculateLoopFaulty(FindByUserId("temp-user-id", "owned"),
                                       inventory, usageLog, fault)
        IN  /\ inventory' = r.inv
            /\ last' = [op |-> "recalculateAllEstimates",
                        result |-> IF r.thrown THEN "Error" ELSE "ok",
                        fault |-> fault]
            /\ UNCHANGED <<usageLog, dailyWear, pc, loc>>

NextSweepFault ==
    \/ CreateInventory(SweepCreateDtos)
    \/ UpdateInventory(AlertUsages)
    \/ RecalculateWithFault

SpecSweepFault == Init /\ [][NextSweepFault]_vars

\* C21: a failure while the sweep processes one fragrance (loading its
\* record, estimating, persisting) does not abort the run: the sweep does not
\* fail and every other fragrance of its population is recomputed and
\* persisted.
CexC21SweepSurvivesItemFailure ==
    [][last'.op = "recalculateAllEstimates"
       => /\ last'.result = "ok"
          /\ \A f \in Fragrances :
                 (/\ f # last'.fault.fragranceId
                  /\ HasRow(inventory, f)
                  /\ Row(inventory, f).usageTracking)
                 => Row(inventory', f).estimatedDaysRemaining
                        = Some(CalculateRemainingDays(inventory', usageLog', f))
      ]_vars

-----------------------------------------------------------------------------
(* A sweep racing with the requests of one client: request slot 1 serves     *)
(* creates, usage updates and edits one after the other, slot 2 the sweep.   *)

NextSweepRace ==
    \/ CreateFind(1)
    \/ CreateInsert(1)
    \/ UpdateFind(1)
    \/ UpdateLog(1)
    \/ WearLogFind(1)
    \/ ApplyEst(1)
    \/ ApplyWrite(1)
    \/ EditFind(1)
    \/ EditEst(1)
    \/ EditWrite(1)
    \/ SweepStart(2)
    \/ SweepFind(2)
    \/ SweepEst(2)
    \/ SweepWrite(2)

SpecSweepRace == InitC /\ [][NextSweepRace]_vars

\* the ledger without the cached estimates
WithoutEstimates(inv) ==
    [i \in DOMAIN inv |-> [inv[i] EXCEPT !.estimatedDaysRemaining = None]]

\* C22: in every interleaving of a sweep with a usage update or an edit of the
\* same record the sweep writes estimatedDaysRemaining only: a sweep write
\* leaves level, bottle size, threshold and tracking flag as they are, and
\* the write of the usage update or edit leaves them as that call alone
\* produces them from the stored record.
ActC22SweepWritesEstimateOnly ==
    [][\A p \in Procs :
          /\ (pc[p] = "sweep_write" /\ pc'[p] # "sweep_write")
             => WithoutEstimates(inventory') = WithoutEstimates(inventory)
          /\ (pc[p] = "apply_write" /\ pc'[p] = "idle")
             => WithoutEstimates(inventory')
                    = WithoutEstimates(
                          RepoUpdate(inventory, loc[p].found[1].id,
                              [NoUpdate EXCEPT !.currentLevel =
                                  Some(NewLevel(inventory[loc[p].found[1].id],
                                                loc[p].usage))]))
          /\ (pc[p] = "edit_write" /\ pc'[p] = "idle")
             => WithoutEstimates(inventory')
                    = WithoutEstimates(
                          RepoUpdate(inventory, loc[p].found[1].id, loc[p].data))
      ]_vars

\* a sweep and a wear-triggered usage update of the same 100 ml record have
\* both completed: the sweep estimated before the usage was logged (200 days)
\* and wrote after the update had set the level to 99.7 percent
WitC22SweepInterleavedWithUsage ==
    /\ last.op = "recalculateAllEstimates"
    /\ \A p \in Procs : pc[p] = "idle"
    /\ HasRow(inventory, "f1")
    /\ Len(usageLog) = 1
    /\ Row(inventory, "f1").currentLevel = 9970
    /\ Row(inventory, "f1").estimatedDaysRemaining = Some(200)

-----------------------------------------------------------------------------
(* SchedulerService.  pc holds the timers the scheduler has created, one per *)
(* call of startInventoryRecalculationJob: the setTimeout to midnight, which *)
(* turns into the daily setInterval when it fires.  loc holds the fields of  *)
(* the scheduler object, with the number of calls and runs so far.           *)

MaxStarts == 2     \* calls of startInventoryRecalculationJob
MaxRuns == 3       \* scheduled sweep runs

SchedTimers == 1..MaxStarts

NoInterval == 0    \* intervalId = null

InitSched ==
    /\ inventory = <<>>
    /\ usageLog = <<>>
    /\ dailyWear = <<>>
    /\ last = [op |-> "none", result |-> "ok"]
    /\ pc = [t \in SchedTimers |-> "unset"]
    /\ loc = [intervalId |-> NoInterval, starts |-> 0, runs |-> 0,
              stopped |-> FALSE]

\* startInventoryRecalculationJob: setTimeout(..., msUntilMidnight); the
\* handle of the timeout is not kept
StartInventoryRecalculationJob ==
    /\ loc.starts < MaxStarts
    /\ pc' = [pc EXCEPT ![loc.starts + 1] = "timeout_pending"]
    /\ loc' = [loc EXCEPT !.starts = loc.starts + 1, !.stopped = FALSE]
    /\ last' = [op |-> "startInventoryRecalculationJob", result |-> "ok"]
    /\ UNCHANGED <<inventory, usageLog, dailyWear>>

\* stopInventoryRecalculationJob: clearInterval(this.intervalId) if it is set
StopInventoryRecalculationJob ==
    /\ pc' = IF loc.intervalId # NoInterval
             THEN [pc EXCEPT ![loc.intervalId] = "cleared"]
             ELSE pc
    /\ loc' = [loc EXCEPT !.intervalId = NoInterval, !.stopped = TRUE]
    /\ last' = [op |-> "stopInventoryRecalculationJob", result |-> "ok"]
    /\ UNCHANGED <<inventory, usageLog, dailyWear>>

\* the callback of setTimeout at midnight: runInventoryRecalculation(), then
\* this.intervalId = setInterval(...)
MidnightTimeout(t) ==
    /\ pc[t] = "timeout_pending"
    /\ loc.runs < MaxRuns
    /\ pc' = [pc EXCEPT ![t] = "interval_active"]
    /\ loc' = [loc EXCEPT !.intervalId = t, !.runs = loc.runs + 1]
    /\ inventory' = RecalculateAllEstimatesFn(inventory, usageLog)
    /\ last' = [op |-> "runInventoryRecalculation", result |-> "ok",
                timer |-> t]
    /\ UNCHANGED <<usageLog, dailyWear>>

\* the callback of setInterval every 24 hours: runInventoryRecalculation()
DailyInterval(t) ==
    /\ pc[t] = "interval_active"
    /\ loc.runs < MaxRuns
    /\ loc' = [loc EXCEPT !.runs = loc.runs + 1]
    /\ inventory' = RecalculateAllEstimatesFn(inventory, usageLog)
    /\ last' = [op |-> "runInventoryRecalculation", result |-> "ok",
                timer |-> t]
    /\ UNCHANGED <<usageLog, dailyWear, pc>>

NextSched ==
    \/ StartInventoryRecalculationJob
    \/ StopInventoryRecalculationJob
    \/ \E t \in SchedTimers : MidnightTimeout(t)
    \/ \E t \in SchedTimers : DailyInterval(t)
    \/ CreateInventory(SweepCreateDtos)

SpecSched == InitSched /\ [][NextSched]_vars

\* C23: after stopInventoryRecalculationJob has returned (and until the job
\* is started again) no scheduled sweep run starts, whether the stop came
\* before or after the first midnight run and however often the job had been
\* started.
CexC23NoRunAfterStop ==
    [][loc'.runs > loc.runs => ~loc.stopped]_vars

-----------------------------------------------------------------------------
(* The HTTP boundary of the inventory endpoints: routes with their          *)
(* validation middleware, then InventoryController.  last holds the         *)
(* response of the request answered last.                                   *)

\* strings z.string().uuid() accepts: the fragrance ids are UUIDs
IsUuid(s) == s \in Fragrances

\* what a client can put in the path or in the body as fragranceId
RequestIds == Fragrances \cup {"not-a-uuid"}

Response(status, code) == [status |-> status, code |-> code]

\* uuidParamSchema.parse(req.params): z.object({id: z.string().uuid()});
\* the parsed object holds the keys of the schema only
UuidParamSchema(params) ==
    IF "id" \in DOMAIN params /\ IsUuid(params.id)
    THEN Some([id |-> params.id])
    ELSE None

\* req.params of a route /:fragranceId
RouteParams(id) == [fragranceId |-> id]

\* req.params.fragranceId as the controller reads it after validateParams
\* has replaced req.params by the parsed object
ParamFragranceId(parsed) ==
    IF "fragranceId" \in DOMAIN parsed THEN parsed.fragranceId
    ELSE "undefined"

HttpCreateDtos ==
    [fragranceId : RequestIds, bottleSize : {100}, currentLevel : {None},
     usageTracking : {None}, lowThreshold : {None}]

HttpUsages ==
    [date : {Today}, sprayCount : {5}, estimatedUsage : {None}]

HttpEdits ==
    [bottleSize : {None}, currentLevel : {Some(Percent(20))},
     usageTracking : {None}, lowThreshold : {None},
     estimatedDaysRemaining : {None}]

\* the answer of validateBody / validateParams to a ZodError
ValidationError(op, id) ==
    [op |-> op, fragranceId |-> id, reached |-> FALSE,
     response |-> Response(400, "VALIDATION_ERROR")]

Answered(op, id, response) ==
    [op |-> op, fragranceId |-> id, reached |-> TRUE, response |-> response]

\* POST /api/inventory/create
HttpCreateInventory ==
    \E data \in HttpCreateDtos :
        IF ~IsUuid(data.fragranceId)
        THEN /\ last' = ValidationError("createInventory", data.fragranceId)
             /\ UNCHANGED <<inventory, usageLog, dailyWear, pc, loc>>
        ELSE IF FindByFragranceId(inventory, data.fragranceId) # None
        THEN /\ last' = Answered("createInventory", data.fragranceId,
                                 Response(500, "INTERNAL_ERROR"))
             /\ UNCHANGED <<inventory, usageLog, dailyWear, pc, loc>>
        ELSE /\ inventory' = RepoCreate(inventory, CreateDefaults(data))
             /\ last' = Answered("createInventory", data.fragranceId,
                                 Response(201, "none"))
             /\ UNCHANGED <<usageLog, dailyWear, pc, loc>>

\* POST /api/inventory
HttpUpdateInventory ==
    \E id \in RequestIds, usage \in HttpUsages :
        LET r == UpdateInventoryFn(inventory, usageLog, id, usage)
        IN  IF ~IsUuid(id)
            THEN /\ last' = ValidationError("updateInventory", id)
                 /\ UNCHANGED <<inventory, usageLog, dailyWear, pc, loc>>
            ELSE /\ Len(usageLog) < MaxLog
                 /\ inventory' = r.inv
                 /\ usageLog' = r.log
                 /\ last' = Answered("updateInventory", id,
                               IF r.result = "ok" THEN Response(200, "none")
                               ELSE Response(500, "INTERNAL_ERROR"))
                 /\ UNCHANGED <<dailyWear, pc, loc>>

\* GET /api/inventory/:fragranceId
HttpGetInventory ==
    \E id \in RequestIds :
        LET parsed == UuidParamSchema(RouteParams(id))
        IN  /\ last' = IF parsed = None
                       THEN ValidationError("getInventory", id)
                       ELSE Answered("getInventory", id,
                              IF FindByFragranceId(inventory,
                                    ParamFragranceId(parsed[1])) = None
                              THEN Response(404, "NOT_FOUND")
                              ELSE Response(200, "none"))
            /\ UNCHANGED <<inventory, usageLog, dailyWear, pc, loc>>

\* GET /api/inventory/:fragranceId/status
HttpGetInventoryStatus ==
    \E id \in RequestIds :
        LET parsed == UuidParamSchema(RouteParams(id))
        IN  /\ last' = IF parsed = None
                       THEN ValidationError("getInventoryStatus", id)
                       ELSE Answered("getInventoryStatus", id,
                              IF FindByFragranceId(inventory,
                                    ParamFragranceId(parsed[1])) = None
                              THEN Response(500, "INTERNAL_ERROR")
                              ELSE Response(200, "none"))
            /\ UNCHANGED <<inventory, usageLog, dailyWear, pc, loc>>

\* GET /api/inventory/:fragranceId/remaining-days
HttpGetRemainingDays ==
    \E id \in RequestIds :
        LET parsed == UuidParamSchema(RouteParams(id))
        IN  /\ last' = IF parsed = None
                       THEN ValidationError("getRemainingDays", id)
                       ELSE Answered("getRemainingDays", id,
                                     Response(200, "none"))
            /\ UNCHANGED <<inventory, usageLog, dailyWear, pc, loc>>

\* PUT /api/inventory/:fragranceId
HttpUpdateInventoryRecord ==
    \E id \in RequestIds, data \in HttpEdits :
        LET parsed == UuidParamSchema(RouteParams(id))
            r == UpdateInventoryRecordFn(inventory, usageLog,
                     ParamFragranceId(parsed[1]), data)
        IN  IF parsed = None
            THEN /\ last' = ValidationError("updateInventoryRecord", id)
                 /\ UNCHANGED <<inventory, usageLog, dailyWear, pc, loc>>
            ELSE /\ inventory' = r.inv
                 /\ last' = Answered("updateInventoryRecord", id,
                               IF r.result = "ok" THEN Response(200, "none")
                               ELSE Response(500, "INTERNAL_ERROR"))
                 /\ UNCHANGED <<usageLog, dailyWear, pc, loc>>

NextHttp ==
    \/ HttpCreateInventory
    \/ HttpUpdateInventory
    \/ HttpGetInventory
    \/ HttpGetInventoryStatus
    \/ HttpGetRemainingDays
    \/ HttpUpdateInventoryRecord

SpecHttp == Init /\ [][NextHttp]_vars

\* C24: a create for a fragrance that already has a record answers 409
\* CONFLICT; a get, status, usage update or record edit for a fragrance (a
\* well-formed id) that has no record answers 404 NOT_FOUND; 500
\* INTERNAL_ERROR is not the answer in either case.
CexC24ConflictAndNotFoundCodes ==
    [][IsUuid(last'.fragranceId) =>
         /\ (last'.op = "createInventory" /\ HasRow(inventory, last'.fragranceId))
               => last'.response = Response(409, "CONFLICT")
         /\ (/\ last'.op \in {"getInventory", "getInventoryStatus",
                              "updateInventory", "updateInventoryRecord"}
             /\ ~HasRow(inventory, last'.fragranceId))
               => last'.response = Response(404, "NOT_FOUND")
         /\ (last'.response.status = 500 =>
               /\ ~(last'.op = "createInventory"
                      /\ HasRow(inventory, last'.fragranceId))
               /\ ~(last'.op # "createInventory"
                      /\ ~HasRow(inventory, last'.fragranceId)))]_vars

\* C30: a request to a /:fragranceId route with a well-formed UUID passes
\* validateParams and reaches the controller; it is never answered with 400
\* VALIDATION_ERROR, and a get answers with the record or with NOT_FOUND.
CexC30UuidPassesParamValidation ==
    [][(/\ last'.op \in {"getInventory", "getInventoryStatus",
                         "getRemainingDays", "updateInventoryRecord"}
        /\ IsUuid(last'.fragranceId))
         => /\ last'.reached
            /\ last'.response.status # 400
            /\ last'.op = "getInventory" =>
                  last'.response = IF HasRow(inventory, last'.fragranceId)
                                   THEN Response(200, "none")
                                   ELSE Response(404, "NOT_FOUND")]_vars

-----------------------------------------------------------------------------
(* Daily-wear updates and deletions, next to every other operation that     *)
(* reads or writes the ledger and the usage log                             *)

MaxWearId == 3     \* daily-wear records ever created

WearEditDates == {Today - 1, Today}

WearEditEntryLists ==
    {<<[fragranceId |-> "f1", sprayCount |-> sprayCount]>> :
        sprayCount \in {None, Some(3)}}

\* POST /api/daily-wear bodies
WearEditCreateDtos ==
    [date : WearEditDates, weather : {None},
     entries : WearEditEntryLists]

\* PUT /api/daily-wear/:id bodies: Partial<CreateDailyWearDto>
WearEditDtos ==
    {[date |-> None, weather |-> Some("rainy"), entries |-> None],
     [date |-> Some(Today), weather |-> None, entries |-> None]}

\* PUT /api/inventory/:fragranceId bodies of this specification
WearEditRecordDtos ==
    [bottleSize : {None}, currentLevel : {None}, usageTracking : {None},
     lowThreshold : {Some(Percent(30))}, estimatedDaysRemaining : {None}]

WearEditInventoryDtos ==
    [fragranceId : {"f1"}, bottleSize : {2}, currentLevel : {None},
     usageTracking : {None}, lowThreshold : {None}]

\* recordDailyWear as a function of the tables
RecordDailyWearFn(wear, inv, log, userId, data) ==
    LET r == ProcessEntries(data.entries, data.date, inv, log, <<>>)
    IN  IF FindByUserAndDate(wear, userId, data.date) # None
        THEN [wear |-> wear, inv |-> inv, log |-> log,
              result |-> "AlreadyExists"]
        ELSE [wear |-> DailyWearCreate(wear, userId, data), inv |-> r.inv,
              log |-> r.log, result |-> IF r.thrown THEN "Error" ELSE "ok"]

\* updatedData of updateDailyWear: the fields of data, else those of the
\* existing record
UpdatedData(existing, data) ==
    [date |-> IF data.date # None THEN data.date[1] ELSE existing.date,
     weather |-> IF data.weather # None THEN data.weather
                 ELSE existing.weather,
     entries |-> IF data.entries # None THEN data.entries[1]
                 ELSE existing.entries]

\* recordDailyWear with weather (POST /api/daily-wear)
RecordDailyWearWithWeather ==
    \E userId \in Users, data \in WearEditCreateDtos :
        LET r == RecordDailyWearFn(dailyWear, inventory, usageLog, userId, data)
        IN  /\ Len(usageLog) + Len(SprayEntries(data.entries)) <= MaxLog
            /\ NextWearId(dailyWear) <= MaxWearId
            /\ dailyWear' = r.wear
            /\ inventory' = r.inv
            /\ usageLog' = r.log
            /\ last' = [op |-> "recordDailyWear", result |-> r.result,
                        userId |-> userId, date |-> data.date]
            /\ UNCHANGED <<pc, loc>>

\* updateDailyWear (PUT /api/daily-wear/:id): delete, then recordDailyWear
UpdateDailyWear ==
    \E id \in 1..MaxWearId, data \in WearEditDtos :
        LET existing == FindById(dailyWear, id)
            updatedData == UpdatedData(existing[1], data)
            r == RecordDailyWearFn(DailyWearDelete(dailyWear, id), inventory,
                                   usageLog, existing[1].userId, updatedData)
        IN  IF existing = None
            THEN /\ last' = [op |-> "updateDailyWear", result |-> "null",
                             id |-> id, data |-> data]
                 /\ UNCHANGED <<inventory, usageLog, dailyWear, pc, loc>>
            ELSE /\ Len(usageLog) + Len(SprayEntries(updatedData.entries))
                       <= MaxLog
                 /\ NextWearId(DailyWearDelete(dailyWear, id)) <= MaxWearId
                 /\ dailyWear' = r.wear
                 /\ inventory' = r.inv
                 /\ usageLog' = r.log
                 /\ last' = [op |-> "updateDailyWear", result |-> r.result,
                             id |-> id, data |-> data,
                             existing |-> existing[1]]
                 /\ UNCHANGED <<pc, loc>>

\* deleteDailyWear (DELETE /api/daily-wear/:id)
DeleteDailyWear ==
    \E id \in 1..MaxWearId :
        /\ dailyWear' = DailyWearDelete(dailyWear, id)
        /\ last' = [op |-> "deleteDailyWear",
                    result |-> FindById(dailyWear, id) # None, id |-> id]
        /\ UNCHANGED <<inventory, usageLog, pc, loc>>

NextWearEdit ==
    \/ CreateInventory(WearEditInventoryDtos)
    \/ UpdateInventory(HttpUsages)
    \/ RecordDailyWearWithWeather
    \/ UpdateDailyWear
    \/ DeleteDailyWear
    \/ UpdateInventoryRecord(WearEditRecordDtos)
    \/ RecalculateAllEstimates

SpecWearEdit == Init /\ [][NextWearEdit]_vars

IsPrefix(s, t) == Len(s) <= Len(t) /\ SubSeq(t, 1, Len(s)) = s

\* C25: the usage log is append-only: every step of direct usage updates,
\* wear recordings, daily-wear updates and deletions, record edits and
\* sweeps keeps the events it had, unchanged and in place, and a successful
\* direct usage update appends exactly one event.
ActC25UsageLogAppendOnly ==
    [][/\ IsPrefix(usageLog, usageLog')
       /\ (last'.op = "updateInventory" /\ last'.result = "ok")
             => Len(usageLog') = Len(usageLog) + 1
       /\ last'.op \in {"deleteDailyWear", "updateInventoryRecord",
                        "recalculateAllEstimates", "createInventory"}
             => usageLog' = usageLog]_vars

\* a daily-wear record that logged usage has been deleted; its usage event is
\* still in the log, after a direct usage update
WitC25DeletedWearKeepsEvents ==
    /\ last.op = "deleteDailyWear"
    /\ last.result = TRUE
    /\ dailyWear = <<>>
    /\ Len(usageLog) = 2
    /\ usageLog[1].sprayCount = 5
    /\ usageLog[2].sprayCount = 3

\* C28: an updateDailyWear of an existing record that changes metadata only
\* (no date, no entries) leaves every level and the usage log unchanged.
CexC28MetadataUpdateKeepsLedger ==
    [][(/\ last'.op = "updateDailyWear"
        /\ last'.result # "null"
        /\ last'.data.date = None
        /\ last'.data.entries = None)
         => /\ usageLog' = usageLog
            /\ \A f \in Fragrances : HasRow(inventory, f) =>
                  Row(inventory', f).currentLevel
                     = Row(inventory, f).currentLevel]_vars

\* C29: updateDailyWear never loses a record: for an unknown id it returns
\* null and the table is unchanged; when the update does not complete, the
\* table still holds the original record.
CexC29UpdateNeverLosesRecord ==
    [][last'.op = "updateDailyWear" =>
         /\ last'.result = "null" => dailyWear' = dailyWear
         /\ last'.result \notin {"null", "ok"} =>
               \E i \in DOMAIN dailyWear' :
                   /\ dailyWear'[i].userId = last'.existing.userId
                   /\ dailyWear'[i].date = last'.existing.date
                   /\ dailyWear'[i].entries = last'.existing.entries]_vars

-----------------------------------------------------------------------------
(* ExternalFragranceService: the retry of a failed request.  pc holds the   *)
(* position of the one request in flight; loc holds the configuration and   *)
(* the retryRequest calls that are waiting for httpClient(config): each one *)
(* with its retryCount, the innermost last.                                 *)

MaxDepth == 3            \* retryRequest calls waiting at the same time

DEFAULT_MAX_RETRIES == 3
BACKOFF_MS == 1000

MaxRetriesConfigs == {None, Some(0), Some(1), Some(2)}

\* config.maxRetries || 3
EffectiveMaxRetries(config) ==
    IF config = None \/ config = Some(0) THEN DEFAULT_MAX_RETRIES
    ELSE config[1]

\* the errors of a request: no response (network error), or a status
RequestErrors == {[response |-> None]}
                 \cup {[response |-> Some(status)] : status \in {404, 500}}

\* shouldRetry
ShouldRetry(error) ==
    error.response = None
    \/ (error.response[1] >= 500 /\ error.response[1] < 600)

RECURSIVE Pow2(_)
Pow2(n) == IF n = 0 THEN 1 ELSE 2 * Pow2(n - 1)

\* Math.pow(2, retryCount) * 1000
BackoffDelay(retryCount) == Pow2(retryCount) * BACKOFF_MS

\* httpClient(config) rejects: the retryRequest call waiting for it catches
\* and calls retryRequest(config, retryCount + 1), which throws to the call
\* below it when the count has reached maxRetries; with no call waiting the
\* request is rejected
RECURSIVE RejectInto(_, _)
RejectInto(frames, maxRetries) ==
    IF frames = <<>> THEN [frames |-> <<>>, rejected |-> TRUE]
    ELSE IF frames[Len(frames)] + 1 >= maxRetries
    THEN RejectInto(SubSeq(frames, 1, Len(frames) - 1), maxRetries)
    ELSE [frames |-> [frames EXCEPT ![Len(frames)] = @ + 1],
          rejected |-> FALSE]

InitRetry ==
    /\ inventory = <<>>
    /\ usageLog = <<>>
    /\ dailyWear = <<>>
    /\ last = [op |-> "none", result |-> "ok"]
    /\ pc = [request |-> "idle"]
    /\ \E config \in MaxRetriesConfigs :
          loc = [maxRetries |-> EffectiveMaxRetries(config), frames |-> <<>>,
                 delays |-> <<>>, resends |-> 0, onlyRetryable |-> TRUE]

\* this.httpClient.get(...)
SendRequest ==
    /\ pc.request = "idle"
    /\ pc' = [request |-> "sending"]
    /\ loc' = [loc EXCEPT !.frames = <<>>, !.delays = <<>>, !.resends = 0,
                          !.onlyRetryable = TRUE]
    /\ last' = [result |-> "pending", op |-> "request"]
    /\ UNCHANGED <<inventory, usageLog, dailyWear>>

\* the response interceptor passes a response on: every waiting call returns
RequestSucceeds ==
    /\ pc.request = "sending"
    /\ pc' = [request |-> "idle"]
    /\ loc' = [loc EXCEPT !.frames = <<>>]
    /\ last' = [result |-> "ok", op |-> "request"]
    /\ UNCHANGED <<inventory, usageLog, dailyWear>>

\* the response interceptor on an error: retryRequest(error.config) if
\* shouldRetry, else Promise.reject(error)
RequestFails ==
    \E error \in RequestErrors :
        LET r == RejectInto(loc.frames, loc.maxRetries)
            frames == IF ShouldRetry(error) THEN Append(loc.frames, 0)
                      ELSE r.frames
        IN  /\ pc.request = "sending"
            /\ ShouldRetry(error) => Len(loc.frames) < MaxDepth
            /\ IF ~ShouldRetry(error) /\ r.rejected
               THEN /\ pc' = [request |-> "idle"]
                    /\ loc' = [loc EXCEPT !.frames = <<>>,
                                          !.onlyRetryable = FALSE]
                    /\ last' = [result |-> "Error", op |-> "request"]
               ELSE /\ pc' = [request |-> "backoff"]
                    /\ loc' = [loc EXCEPT
                          !.frames = frames,
                          !.delays = Append(@,
                              BackoffDelay(frames[Len(frames)])),
                          !.onlyRetryable = @ /\ ShouldRetry(error)]
                    /\ last' = [result |-> "pending", op |-> "request"]
            /\ UNCHANGED <<inventory, usageLog, dailyWear>>

\* the timer of the backoff fires: this.httpClient(config)
BackoffElapsed ==
    /\ pc.request = "backoff"
    /\ pc' = [request |-> "sending"]
    /\ loc' = [loc EXCEPT !.resends = @ + 1]
    /\ last' = [result |-> "pending", op |-> "request"]
    /\ UNCHANGED <<inventory, usageLog, dailyWear>>

NextRetry ==
    \/ SendRequest
    \/ RequestSucceeds
    \/ RequestFails
    \/ BackoffElapsed

SpecRetry == InitRetry /\ [][NextRetry]_vars

\* C26: a request whose failures are all retryable (network error or 5xx)
\* is re-sent at most maxRetries times, and the delay before the k-th
\* re-send is 2^(k-1) seconds.
CexC26AtMostMaxRetriesResends ==
    loc.onlyRetryable =>
        /\ loc.resends <= loc.maxRetries
        /\ \A k \in DOMAIN loc.delays :
              loc.delays[k] = Pow2(k - 1) * BACKOFF_MS

-----------------------------------------------------------------------------
(* ExternalFragranceService.searchFragrances.  A query is a sequence of     *)
(* characters.  loc holds the Redis client of the service and the entries   *)
(* Redis stores; a call of a source is one outcome: it fails, or it returns *)
(* a list.                                                                  *)

MIN_QUERY_LENGTH == 2

\* the queries of the clients: empty, padded with blanks, in upper case
Queries ==
    {<<>>, <<"a", " ">>, <<"a", "a">>, <<"A", "a">>, <<" ", "A", "a">>,
     <<"a", " ", "a">>}

\* String.prototype.trim
RECURSIVE Trim(_)
Trim(s) ==
    IF s = <<>> THEN s
    ELSE IF Head(s) = " " THEN Trim(Tail(s))
    ELSE IF s[Len(s)] = " " THEN Trim(SubSeq(s, 1, Len(s) - 1))
    ELSE s

\* String.prototype.toLowerCase
ToLowerCase(s) == [i \in 1..Len(s) |-> IF s[i] = "A" THEN "a" ELSE s[i]]

\* query.trim().toLowerCase()
NormalizedQuery(query) == ToLowerCase(Trim(query))

\* JSON.stringify / JSON.parse of a result list
JsonStringify(data) == [json |-> data]
JsonParse(text) == text.json

\* String.prototype.includes
Includes(name, query) ==
    \E i \in 1..(Len(name) - Len(query) + 1) :
        SubSeq(name, i, i + Len(query) - 1) = query

\* mockFragrances of searchMockApi, by name
MockFragrances == <<[name |-> <<"a", "a">>, source |-> "mock"]>>

\* searchMockApi: the mock fragrances whose name includes the query
SearchMockApi(query) ==
    SelectSeq(MockFragrances, LAMBDA fragrance : Includes(fragrance.name, query))

SearchSources == <<"fragrantica", "parfumo", "mock">>

Failed == [failed |-> TRUE, results |-> <<>>]
Returned(results) == [failed |-> FALSE, results |-> results]

\* what a remote source can answer to a query
SourceOutcomes(source, query) ==
    {Failed, Returned(<<>>), Returned(<<[name |-> query, source |-> source]>>)}

\* the outcomes of Parfumo in this specification
ParfumoOutcomes(query) == SourceOutcomes("parfumo", query) \ {Returned(<<>>)}

\* getFromCache
GetFromCache(redisClient, cache, key, fault) ==
    IF redisClient = "null" THEN None
    ELSE IF fault = "read" THEN None
    ELSE IF key \in DOMAIN cache THEN Some(JsonParse(cache[key]))
    ELSE None

\* setCache
SetCache(redisClient, cache, key, data, fault) ==
    IF redisClient = "null" THEN cache
    ELSE IF fault = "write" THEN cache
    ELSE (key :> JsonStringify(data)) @@ cache

\* the loop of searchWithFallback from method i on
RECURSIVE SearchWithFallbackFirstAnswer(_, _)
SearchWithFallbackFirstAnswer(outcomes, i) ==
    IF i > Len(outcomes)
    THEN [thrown |-> TRUE, results |-> <<>>, contacted |-> Len(outcomes)]
    ELSE IF ~outcomes[i].failed
    THEN [thrown |-> FALSE, results |-> outcomes[i].results, contacted |-> i]
    ELSE SearchWithFallbackFirstAnswer(outcomes, i + 1)
RECURSIVE SearchWithFallback(_, _)
SearchWithFallback(outcomes, i) ==
    IF i > Len(outcomes)
    THEN [thrown |-> TRUE, results |-> <<>>, contacted |-> Len(outcomes)]
    ELSE IF ~outcomes[i].failed /\ Len(outcomes[i].results) > 0
    THEN [thrown |-> FALSE, results |-> outcomes[i].results, contacted |-> i]
    ELSE SearchWithFallback(outcomes, i + 1)

\* searchFragrances
SearchFragrancesFn(query, redisClient, cache, outcomes, fault) ==
    LET key == NormalizedQuery(query)
        cachedResult == GetFromCache(redisClient, cache, key, fault)
        r == SearchWithFallback(outcomes, 1)
    IN  IF query = <<>> \/ Len(Trim(query)) < MIN_QUERY_LENGTH
        THEN [result |-> <<>>, cache |-> cache, contacted |-> <<>>]
        ELSE IF cachedResult # None
        THEN [result |-> cachedResult[1], cache |-> cache, contacted |-> <<>>]
        ELSE IF r.thrown
        THEN [result |-> <<>>, cache |-> cache,
              contacted |-> SubSeq(SearchSources, 1, r.contacted)]
        ELSE [result |-> r.results,
              cache |-> SetCache(redisClient, cache, key, r.results, fault),
              contacted |-> SubSeq(SearchSources, 1, r.contacted)]

InitSearch ==
    /\ inventory = <<>>
    /\ usageLog = <<>>
    /\ dailyWear = <<>>
    /\ last = [op |-> "none", result |-> "ok"]
    /\ pc = NoRequests
    /\ \E redisClient \in {"connected", "null"} :
          loc = [redisClient |-> redisClient, cache |-> <<>>]

\* searchFragrances(query)
SearchFragrances ==
    \E query \in Queries, fault \in {"none", "read", "write"},
       mockFails \in BOOLEAN :
      \E fragrantica \in SourceOutcomes("fragrantica", NormalizedQuery(query)),
         parfumo \in ParfumoOutcomes(NormalizedQuery(query)) :
        LET mock == IF mockFails THEN Failed
                    ELSE Returned(SearchMockApi(NormalizedQuery(query)))
            outcomes == <<fragrantica, parfumo, mock>>
            r == SearchFragrancesFn(query, loc.redisClient, loc.cache,
                                    outcomes, fault)
        IN  /\ loc' = [loc EXCEPT !.cache = r.cache]
            /\ last' = [op |-> "searchFragrances", query |-> query,
                        result |-> r.result, contacted |-> r.contacted,
                        outcomes |-> outcomes, fault |-> fault]
            /\ UNCHANGED <<inventory, usageLog, dailyWear, pc>>

\* the entry of a key expires (setEx with cacheTtl)
CacheEntryExpires ==
    \E key \in DOMAIN loc.cache :
        /\ loc' = [loc EXCEPT !.cache =
                      [k \in DOMAIN loc.cache \ {key} |-> loc.cache[k]]]
        /\ last' = [result |-> "ok", op |-> "expire"]
        /\ UNCHANGED <<inventory, usageLog, dailyWear, pc>>

\* redisClient.on('error'): this.redisClient = null
RedisClientError ==
    /\ loc.redisClient = "connected"
    /\ loc' = [loc EXCEPT !.redisClient = "null"]
    /\ last' = [result |-> "ok", op |-> "redisError"]
    /\ UNCHANGED <<inventory, usageLog, dailyWear, pc>>

NextSearch ==
    \/ SearchFragrances
    \/ CacheEntryExpires
    \/ RedisClientError

SpecSearch == InitSearch /\ [][NextSearch]_vars

\* the sources of the search answered last that returned a non-empty list
Answering == {i \in 1..3 : ~last'.outcomes[i].failed
                           /\ last'.outcomes[i].results # <<>>}

CacheReadable ==
    /\ loc.redisClient = "connected"
    /\ last'.fault # "read"
    /\ NormalizedQuery(last'.query) \in DOMAIN loc.cache

\* the answer of the search step: the cached list without contacting a
\* source on a hit; on a miss the list of the first source, in the order
\* Fragrantica, Parfumo, mock, that returns a non-empty one, cached under the
\* normalized query when the cache can be written; the empty list, with the
\* cache unchanged, when no source returns anything
SearchAnswerAsSpecified ==
    LET key == NormalizedQuery(last'.query)
    IN  IF CacheReadable
        THEN /\ last'.result = JsonParse(loc.cache[key])
             /\ last'.contacted = <<>>
             /\ loc'.cache = loc.cache
        ELSE IF Answering = {}
        THEN /\ last'.result = <<>>
             /\ last'.contacted = SearchSources
             /\ loc'.cache = loc.cache
        ELSE /\ last'.result = last'.outcomes[Min(Answering)].results
             /\ last'.contacted = SubSeq(SearchSources, 1, Min(Answering))
             /\ loc'.cache =
                  IF loc.redisClient = "connected" /\ last'.fault # "write"
                  THEN [k \in DOMAIN loc.cache \cup {key} |->
                          IF k = key THEN JsonStringify(last'.result)
                          ELSE loc.cache[k]]
                  ELSE loc.cache

====
